---- MODULE Spec2Model ----
(***************************************************************************)
(* Model of the transit query engine of backend/db.py and backend/utils.py *)
(* (compute_best_route, query_closest_departures and their helpers) and of *)
(* the request handlers of backend/app.py.                                 *)
(*                                                                         *)
(* Conventions of the model                                                *)
(*  - All points lie on one meridian: a coordinate is its position along   *)
(*    the meridian in metres, so haversine_distance_m is the absolute      *)
(*    difference of two positions.                                         *)
(*  - A column value read from SQLite is <<"num", n>> when float() accepts *)
(*    it and <<"text">> when float() raises.                               *)
(*  - A GTFS time string "HH:MM:SS" is the tuple <<h, m, s>>; a tuple of   *)
(*    another length is a string that does not split in three parts.       *)
(*  - Inside one route query every time is held as an exact multiple of    *)
(*    1/walk_speed_m_s second ("ticks"): t seconds are t * walk_speed_m_s  *)
(*    ticks and walking d metres takes d ticks.  int(x) of the source is   *)
(*    x \div walk_speed_m_s.  The 1e-6 tolerances of the source are below  *)
(*    one tick for the integer speeds and distances of the model.          *)
(***************************************************************************)
EXTENDS Integers, Sequences, FiniteSets, TLC

VARIABLES
    stops,       \* table stops: sequence of rows, in storage order
    trips,       \* table trips: sequence of rows
    stop_times,  \* table stop_times: sequence of rows, in storage order
    rt,          \* rt[q]: locals of invocation q of compute_best_route
    cd,          \* locals of the invocation of query_closest_departures
    http         \* the HTTP request being handled and its response

vars == <<stops, trips, stop_times, rt, cd, http>>

-----------------------------------------------------------------------------
(* Bounds of the model                                                     *)

\* latest minute (after the reference minute) at which trip U starts
MaxMinute == 5
\* largest walking radius, in units of WalkUnit metres
MaxWalkUnits == 2
\* largest limit passed to query_closest_departures
MaxLimit == 3
\* entries of the list segments that are kept; a predecessor walk over
\* distinct stops appends at most one entry per stop
MaxSegments == 6

\* the two invocations of compute_best_route that may be in flight
Queries == {1, 2}

\* identifiers, in the order Python and SQLite compare them as strings
StopOrder == <<"A", "B", "C", "D">>
TripOrder == <<"T", "U">>

\* metres between neighbouring grid positions
WalkUnit == 45

-----------------------------------------------------------------------------
(* Generic helpers                                                         *)

Abs(x) == IF x < 0 THEN -x ELSE x

Range(s) == {s[i] : i \in 1..Len(s)}

Rank(order, x) == CHOOSE i \in 1..Len(order) : order[i] = x

MinOf(S) == CHOOSE x \in S : \A y \in S : x <= y

RECURSIVE SumSeq(_)
SumSeq(s) == IF s = <<>> THEN 0 ELSE Head(s) + SumSeq(Tail(s))

\* float(x) of a column value succeeds
FloatOk(x) == x[1] = "num"
Float(x) == x[2]

-----------------------------------------------------------------------------
(* backend/utils.py                                                        *)

haversine_distance_m(lat1, lat2) == Abs(lat2 - lat1)

\* hms.split(":") has three parts (the model has no non-integer part)
TimeParses(hms) == Len(hms) = 3

gtfs_time_to_seconds(hms) == hms[1] * 3600 + hms[2] * 60 + hms[3]

\* a datetime is [day, sec]: a calendar day number and the second of that day
iso_day_start_and_seconds(base_iso) ==
    [day_start |-> [day |-> base_iso.day, sec |-> 0], secs |-> base_iso.sec]

\* mutant: the seconds wrap at midnight and the day is not carried
SameDayClock(day_start, seconds) == [day |-> day_start.day, sec |-> seconds % 86400]

\* day_start + timedelta(seconds = int(seconds)), seconds an integer here
day_start_plus_seconds_to_iso(day_start, seconds) ==
    [day |-> day_start.day + (seconds \div 86400), sec |-> seconds % 86400]

-----------------------------------------------------------------------------
(* compute_best_route: loading and walking candidates (db.py 225-263)      *)

INF == 1000000000

NoneId == "None"

EmptyDict == [x \in {} |-> 0]

\* seconds to ticks of 1/walk_speed_m_s second
Ticks(sec, walk_speed_m_s) == sec * walk_speed_m_s

\* dist_m / walk_speed_m_s seconds, in ticks
WalkTicks(dist_m) == dist_m

\* the dict stops: stop_id -> lat, of the rows whose coordinates parse
StopsDict(stops_rows) ==
    LET ok == {i \in 1..Len(stops_rows) : FloatOk(stops_rows[i].stop_lat)}
    IN  [sid \in {stops_rows[i].stop_id : i \in ok} |->
            Float((CHOOSE r \in {stops_rows[i] : i \in ok} : r.stop_id = sid).stop_lat)]

\* keys of the dict stops in insertion order
StopKeys(stops_rows) ==
    LET Ok(r) == FloatOk(r.stop_lat)
        rows == SelectSeq(stops_rows, Ok)
    IN  [i \in 1..Len(rows) |-> rows[i].stop_id]

WithinWalk(d, max_walk_m) == d <= max_walk_m

OriginCandidates(keys, sd, start_lat, max_walk_m) ==
    LET Near(sid) == WithinWalk(haversine_distance_m(start_lat, sd[sid]), max_walk_m)
        near == SelectSeq(keys, Near)
    IN  [i \in 1..Len(near) |-> <<near[i], haversine_distance_m(start_lat, sd[near[i]])>>]

DestWalk(sd, dest_lat, max_walk_m) ==
    [sid \in {s \in DOMAIN sd :
                 WithinWalk(haversine_distance_m(dest_lat, sd[s]), max_walk_m)} |->
        haversine_distance_m(dest_lat, sd[sid])]

\* mutant: the destination side is not examined
NoCandidatesOriginOnly(origin_candidates, dest_walk) == origin_candidates = <<>>

NoCandidates(origin_candidates, dest_walk) ==
    origin_candidates = <<>> \/ DOMAIN dest_walk = {}

-----------------------------------------------------------------------------
(* compute_best_route: transit edges (db.py 265-319)                       *)

\* mutant: ORDER BY stop_sequence
RowBeforeBySequence(a, b) == a.stop_sequence < b.stop_sequence

\* ORDER BY trip_id, stop_sequence
RowBefore(a, b) ==
    \/ Rank(TripOrder, a.trip_id) < Rank(TripOrder, b.trip_id)
    \/ /\ a.trip_id = b.trip_id
       /\ a.stop_sequence < b.stop_sequence

RECURSIVE OrderByTripSeq(_)
OrderByTripSeq(rows) ==
    IF rows = <<>> THEN <<>>
    ELSE LET i == CHOOSE k \in 1..Len(rows) :
                      /\ \A j \in 1..Len(rows) : ~RowBefore(rows[j], rows[k])
                      /\ \A j \in 1..(k-1) : RowBefore(rows[k], rows[j])
             rest == [j \in 1..(Len(rows)-1) |-> IF j < i THEN rows[j] ELSE rows[j+1]]
         IN  <<rows[i]>> \o OrderByTripSeq(rest)

\* mutant: backwards times are not ignored
BackwardsKept(dep_sec, arr_sec) == FALSE

\* arr_sec < dep_sec: "ignore weird backwards times"
Backwards(dep_sec, arr_sec) == arr_sec < dep_sec

\* the edge of the pair (prev_row, row), as a sequence of zero or one edge
EdgeOfPair(prev_row, row, sd, v) ==
    IF row.trip_id # prev_row.trip_id THEN <<>>
    ELSE IF prev_row.stop_id \notin DOMAIN sd \/ row.stop_id \notin DOMAIN sd THEN <<>>
    ELSE IF ~TimeParses(prev_row.departure_time) \/ ~TimeParses(row.arrival_time) THEN <<>>
    ELSE LET dep_sec == Ticks(gtfs_time_to_seconds(prev_row.departure_time), v)
             arr_sec == Ticks(gtfs_time_to_seconds(row.arrival_time), v)
         IN  IF Backwards(dep_sec, arr_sec) THEN <<>>
             ELSE << [from_stop_id |-> prev_row.stop_id,
                      trip_id      |-> row.trip_id,
                      to_stop_id   |-> row.stop_id,
                      dep_sec      |-> dep_sec,
                      arr_sec      |-> arr_sec] >>

RECURSIVE EdgesFrom(_, _, _, _)
EdgesFrom(rows, i, sd, v) ==
    IF i > Len(rows) THEN <<>>
    ELSE EdgeOfPair(rows[i-1], rows[i], sd, v) \o EdgesFrom(rows, i + 1, sd, v)

\* every edge in the order the loop appends them
AllEdges(st_rows, sd, v) == EdgesFrom(OrderByTripSeq(st_rows), 2, sd, v)

EdgesByStop(st_rows, sd, v) ==
    LET all == AllEdges(st_rows, sd, v)
    IN  [sid \in DOMAIN sd |-> SelectSeq(all, LAMBDA e : e.from_stop_id = sid)]

NoEdges(edges_by_stop) == \A sid \in DOMAIN edges_by_stop : edges_by_stop[sid] = <<>>

-----------------------------------------------------------------------------
(* compute_best_route: earliest-arrival search (db.py 321-387)             *)

\* seeding loop over origin_candidates[i..]; s carries best_time, prev, pq
RECURSIVE SeedFrom(_, _, _)
SeedFrom(s, cands, start_sec) ==
    IF cands = <<>> THEN s
    ELSE LET stop_id     == Head(cands)[1]
             dist_m      == Head(cands)[2]
             arrival_sec == start_sec + WalkTicks(dist_m)
         IN  IF arrival_sec < s.best_time[stop_id]
             THEN SeedFrom(
                    [s EXCEPT
                       !.best_time = [@ EXCEPT ![stop_id] = arrival_sec],
                       !.prev = [x \in DOMAIN @ \cup {stop_id} |->
                                   IF x = stop_id
                                   THEN [prev_stop_id    |-> NoneId,
                                         trip_id         |-> NoneId,
                                         dep_time_sec    |-> start_sec,
                                         arr_time_sec    |-> arrival_sec,
                                         mode            |-> "walk_start",
                                         walk_distance_m |-> dist_m]
                                   ELSE @[x]],
                       !.pq = @ \cup {<<arrival_sec, stop_id>>}],
                    Tail(cands), start_sec)
             ELSE SeedFrom(s, Tail(cands), start_sec)

\* heap order of the tuples (arrival, stop_id)
HeapBefore(a, b) ==
    \/ a[1] < b[1]
    \/ a[1] = b[1] /\ Rank(StopOrder, a[2]) <= Rank(StopOrder, b[2])

HeapTop(pq) == CHOOSE e \in pq : \A f \in pq : HeapBefore(e, f)

\* the tolerance 1e-6 s of lines 351 and 372 in ticks, rounded down: for
\* whole numbers of ticks x and y, x > y + 1e-6 s exactly when x - y > Eps
Eps(walk_speed_m_s) == walk_speed_m_s \div 1000000

\* line 351: current_time > best_time[stop_id] + 1e-6
Stale(current_time, best, tolerance) == current_time - best > tolerance

\* mutant: the last destination-walk found replaces the best one
DestCheckLast(s, current_time, stop_id) ==
    IF stop_id \in DOMAIN s.dest_walk
    THEN [s EXCEPT !.best_dest_total_sec = current_time + WalkTicks(s.dest_walk[stop_id]),
                   !.best_dest_stop_id = stop_id]
    ELSE s

\* lines 355-360: the popped stop may walk to the destination
DestCheck(s, current_time, stop_id) ==
    IF stop_id \in DOMAIN s.dest_walk
    THEN LET total_arrival_sec == current_time + WalkTicks(s.dest_walk[stop_id])
         IN  IF total_arrival_sec < s.best_dest_total_sec
             THEN [s EXCEPT !.best_dest_total_sec = total_arrival_sec,
                            !.best_dest_stop_id = stop_id]
             ELSE s
    ELSE s

\* line 363
Pruned(current_time, best_dest_total_sec) == current_time > best_dest_total_sec

\* mutant: a departure at the very moment of arrival is missed
CatchableStrict(dep_sec, current_time, tolerance) == dep_sec > current_time

\* mutant: every edge of the popped stop can be boarded
CatchableAny(dep_sec, current_time, tolerance) == TRUE

\* line 372 negated: not dep_sec < current_time - 1e-6
Catchable(dep_sec, current_time, tolerance) == ~(current_time - dep_sec > tolerance)

\* line 375
Improves(arr_sec, best) == arr_sec < best

\* lines 367-384 over the edge list es of the popped stop
RECURSIVE RelaxEdges(_, _, _, _)
RelaxEdges(s, es, stop_id, current_time) ==
    IF es = <<>> THEN s
    ELSE LET edge == Head(es)
             to   == edge.to_stop_id
         IN  IF /\ Catchable(edge.dep_sec, current_time, Eps(s.walk_speed_m_s))
                /\ Improves(edge.arr_sec, s.best_time[to])
             THEN RelaxEdges(
                    [s EXCEPT
                       !.best_time = [@ EXCEPT ![to] = edge.arr_sec],
                       !.prev = [x \in DOMAIN @ \cup {to} |->
                                   IF x = to
                                   THEN [prev_stop_id    |-> stop_id,
                                         trip_id         |-> edge.trip_id,
                                         dep_time_sec    |-> edge.dep_sec,
                                         arr_time_sec    |-> edge.arr_sec,
                                         mode            |-> "ride",
                                         walk_distance_m |-> 0]
                                   ELSE @[x]],
                       !.pq = @ \cup {<<edge.arr_sec, to>>}],
                    Tail(es), stop_id, current_time)
             ELSE RelaxEdges(s, Tail(es), stop_id, current_time)

\* line 386
NotFound(best_dest_stop_id, best_dest_total_sec) ==
    best_dest_stop_id = NoneId \/ best_dest_total_sec >= INF

-----------------------------------------------------------------------------
(* compute_best_route: reconstruction (db.py 389-557)                      *)

\* int(x) of a number of seconds held in ticks
IntSec(ticks, walk_speed_m_s) == ticks \div walk_speed_m_s

\* day_start_plus_seconds_to_iso(day_start_dt, x) for x held in ticks
Iso(s, ticks) ==
    day_start_plus_seconds_to_iso(s.day_start_dt, IntSec(ticks, s.walk_speed_m_s))

\* lines 398-401
Segment(cur_stop_id, step) ==
    [to_stop_id      |-> cur_stop_id,
     prev_stop_id    |-> step.prev_stop_id,
     trip_id         |-> step.trip_id,
     dep_time_sec    |-> step.dep_time_sec,
     arr_time_sec    |-> step.arr_time_sec,
     mode            |-> step.mode,
     walk_distance_m |-> step.walk_distance_m]

\* mutant: the chain is left in the order of the predecessor walk
Unreversed(seq) == seq

\* line 408: segments.reverse()
Reverse(seq) == [i \in 1..Len(seq) |-> seq[Len(seq) + 1 - i]]

StopRef(s, sid) == [stop_id |-> sid, coordinates |-> s.stops[sid]]

\* lines 416-422
TripMeta(trips_rows) ==
    [tid \in {trips_rows[i].trip_id : i \in 1..Len(trips_rows)} |->
        (CHOOSE r \in Range(trips_rows) : r.trip_id = tid).route_id]

\* lines 427-455: the legs before the ride loop
FirstLegs(s, segments) ==
    IF segments[1].mode = "walk_start"
    THEN << [type         |-> "walk",
             from         |-> [coordinates |-> s.start],
             to           |-> StopRef(s, segments[1].to_stop_id),
             distance_m   |-> segments[1].walk_distance_m,
             start_time   |-> Iso(s, segments[1].dep_time_sec),
             arrival_time |-> Iso(s, segments[1].arr_time_sec)] >>
    ELSE <<>>

SegIndexStart(segments) == IF segments[1].mode = "walk_start" THEN 2 ELSE 1

\* mutant: a segment never continues the current leg
SameTripNever(leg_trip_id, trip_id) == leg_trip_id = trip_id /\ leg_trip_id = NoneId

\* line 470: the segment continues the current leg
SameTrip(leg_trip_id, trip_id) == leg_trip_id = trip_id

\* mutant: an extension counts the boarding stop again
ExtendStopsTwice(num_stops) == num_stops + 2

\* line 483
ExtendStops(num_stops) == num_stops + 1

\* lines 459-517 from segment i on; current is the index in legs of
\* current_leg, 0 when current_leg is None
RECURSIVE RideLegs(_, _, _, _, _, _)
RideLegs(s, meta, segments, i, legs, current) ==
    IF i > Len(segments) THEN legs
    ELSE LET seg == segments[i]
         IN  IF seg.mode # "ride"
             THEN RideLegs(s, meta, segments, i + 1, legs, current)
             ELSE IF current # 0 /\ SameTrip(legs[current].trip_id, seg.trip_id)
             THEN RideLegs(s, meta, segments, i + 1,
                    [legs EXCEPT
                       ![current].to = StopRef(s, seg.to_stop_id),
                       ![current].arrival_time = Iso(s, seg.arr_time_sec),
                       ![current].num_stops = ExtendStops(@)],
                    current)
             ELSE RideLegs(s, meta, segments, i + 1,
                    Append(legs,
                       [type          |-> "ride",
                        trip_id       |-> seg.trip_id,
                        route_id      |-> IF seg.trip_id \in DOMAIN meta
                                          THEN meta[seg.trip_id] ELSE NoneId,
                        from          |-> StopRef(s, seg.prev_stop_id),
                        to            |-> StopRef(s, seg.to_stop_id),
                        boarding_time |-> Iso(s, seg.dep_time_sec),
                        arrival_time  |-> Iso(s, seg.arr_time_sec),
                        num_stops     |-> 1]),
                    Len(legs) + 1)

\* lines 519-549
FinalWalk(s) ==
    LET last_stop_id == s.best_dest_stop_id
    IN  [type         |-> "walk",
         from         |-> StopRef(s, last_stop_id),
         to           |-> [coordinates |-> s.dest],
         distance_m   |-> s.dest_walk[last_stop_id],
         start_time   |-> Iso(s, s.best_time[last_stop_id]),
         arrival_time |-> Iso(s, s.best_dest_total_sec)]

\* mutant: the reference time is not subtracted
TotalSinceMidnight(best_dest_total_sec, start_sec, walk_speed_m_s) ==
    IntSec(best_dest_total_sec, walk_speed_m_s)

\* line 554
TotalTravelTime(best_dest_total_sec, start_sec, walk_speed_m_s) ==
    IntSec(best_dest_total_sec - start_sec, walk_speed_m_s)

\* lines 408-557 on the reversed chain
Route(s, trips_rows, segments) ==
    IF segments = <<>> THEN [status |-> "None"]
    ELSE [status                |-> "route",
          start_time            |-> s.start_time_iso,
          arrival_time          |-> Iso(s, s.best_dest_total_sec),
          total_travel_time_sec |-> TotalTravelTime(s.best_dest_total_sec, s.start_sec,
                                                    s.walk_speed_m_s),
          legs                  |-> Append(
                                      RideLegs(s, TripMeta(trips_rows), segments,
                                               SegIndexStart(segments),
                                               FirstLegs(s, segments), 0),
                                      FinalWalk(s))]

-----------------------------------------------------------------------------
(* compute_best_route as a state machine; rt[q].pc is the position of      *)
(* invocation q. The fields settled and scans are the history of the main  *)
(* loop: the entries (current_time, stop_id) that passed the test of line  *)
(* 351, and the stops whose edges the loop of line 366 went through.       *)

Idle ==
    [pc |-> "idle", start |-> 0, dest |-> 0, start_time_iso |-> [day |-> 0, sec |-> 0],
     max_walk_m |-> 0, walk_speed_m_s |-> 1,
     stops |-> EmptyDict, origin_candidates |-> <<>>, dest_walk |-> EmptyDict,
     edges_by_stop |-> EmptyDict, day_start_dt |-> [day |-> 0, sec |-> 0],
     start_sec |-> 0, best_time |-> EmptyDict, prev |-> EmptyDict, pq |-> {},
     best_dest_total_sec |-> INF, best_dest_stop_id |-> NoneId,
     segments |-> <<>>, cur_stop_id |-> NoneId, result |-> [status |-> "pending"],
     settled |-> <<>>, scans |-> <<>>]

\* a call compute_best_route(city, start, dest, start_time_iso, max_walk_m, walk_speed_m_s)
Request(start, dest, start_time_iso, max_walk_m, walk_speed_m_s) ==
    [Idle EXCEPT !.pc = "start", !.start = start, !.dest = dest,
                 !.start_time_iso = start_time_iso, !.max_walk_m = max_walk_m,
                 !.walk_speed_m_s = walk_speed_m_s]

ReturnNone(s) == [s EXCEPT !.pc = "done", !.result = [status |-> "None"]]

\* lines 226-319 once the tables are read: sd is the dictionary stops and es
\* the adjacency edges_by_stop
Loaded(s, stops_rows, sd, es) ==
    LET oc == OriginCandidates(StopKeys(stops_rows), sd, s.start, s.max_walk_m)
        dw == DestWalk(sd, s.dest, s.max_walk_m)
    IN  IF stops_rows = <<>> \/ DOMAIN sd = {} THEN ReturnNone(s)
        ELSE IF NoCandidates(oc, dw)
        THEN ReturnNone([s EXCEPT !.stops = sd, !.origin_candidates = oc,
                                  !.dest_walk = dw])
        ELSE IF NoEdges(es)
        THEN ReturnNone([s EXCEPT !.stops = sd, !.origin_candidates = oc,
                                  !.dest_walk = dw, !.edges_by_stop = es])
        ELSE [s EXCEPT !.pc = "seed", !.stops = sd, !.origin_candidates = oc,
                       !.dest_walk = dw, !.edges_by_stop = es]

\* lines 219-319
Built(s, stops_rows, st_rows) ==
    LET sd == StopsDict(stops_rows)
    IN  Loaded(s, stops_rows, sd, EdgesByStop(st_rows, sd, s.walk_speed_m_s))

\* mutant: the labels are one dictionary shared by the invocations, so a new
\* search starts from the labels the others have written
SharedLabels(s) ==
    [sid \in DOMAIN s.stops |->
        MinOf({INF} \cup {rt[q].best_time[sid] :
                             q \in {x \in Queries : sid \in DOMAIN rt[x].best_time}})]

\* line 324: best_time = {sid: INF for sid in stops.keys()}
FreshLabels(s) == [sid \in DOMAIN s.stops |-> INF]

\* lines 321-347
Seeded(s) ==
    LET ds  == iso_day_start_and_seconds(s.start_time_iso)
        sec == Ticks(ds.secs, s.walk_speed_m_s)
        s0  == [s EXCEPT !.day_start_dt = ds.day_start,
                         !.start_sec = sec,
                         !.best_time = FreshLabels(s),
                         !.prev = EmptyDict,
                         !.pq = {},
                         !.best_dest_total_sec = INF,
                         !.best_dest_stop_id = NoneId]
    IN  [SeedFrom(s0, s.origin_candidates, sec) EXCEPT !.pc = "search"]

\* line 350: heappop
Popped(s) == [s EXCEPT !.pq = @ \ {HeapTop(s.pq)}]

\* lines 350-360: the popped label is current and the destination is tested
Settled(s) ==
    [DestCheck(Popped(s), HeapTop(s.pq)[1], HeapTop(s.pq)[2]) EXCEPT
        !.settled = Append(@, HeapTop(s.pq))]

\* lines 366-384 for the popped stop
Relaxed(s) ==
    LET e  == HeapTop(s.pq)
        s1 == [Settled(s) EXCEPT !.scans = Append(@, e[2])]
    IN  RelaxEdges(s1, s1.edges_by_stop[e[2]], e[2], e[1])

\* lines 386-391
Decided(s) ==
    IF NotFound(s.best_dest_stop_id, s.best_dest_total_sec)
    THEN ReturnNone(s)
    ELSE [s EXCEPT !.pc = "walkback", !.segments = <<>>,
                   !.cur_stop_id = s.best_dest_stop_id]

\* lines 393-406: one iteration of the predecessor walk; of the list
\* segments the model keeps the first MaxSegments entries
WalkedBack(s) ==
    IF s.cur_stop_id \notin DOMAIN s.prev
    THEN [s EXCEPT !.pc = "legs"]
    ELSE LET step == s.prev[s.cur_stop_id]
             segs == IF Len(s.segments) < MaxSegments
                     THEN Append(s.segments, Segment(s.cur_stop_id, step))
                     ELSE s.segments
         IN  IF step.prev_stop_id = NoneId
             THEN [s EXCEPT !.pc = "legs", !.segments = segs]
             ELSE [s EXCEPT !.segments = segs,
                            !.cur_stop_id = step.prev_stop_id]

\* lines 408-557
LegsBuilt(s, trips_rows) ==
    [s EXCEPT !.pc = "done",
              !.segments = Reverse(@),
              !.result = Route(s, trips_rows, Reverse(s.segments))]

\* lines 219-319
BuildGraph(q) ==
    /\ rt[q].pc = "start"
    /\ rt' = [rt EXCEPT ![q] = Built(rt[q], stops, stop_times)]
    /\ UNCHANGED <<stops, trips, stop_times, cd, http>>

\* lines 321-347
SeedLabels(q) ==
    /\ rt[q].pc = "seed"
    /\ rt' = [rt EXCEPT ![q] = Seeded(rt[q])]
    /\ UNCHANGED <<stops, trips, stop_times, cd, http>>

\* line 349 with an empty queue
QueueEmpty(q) ==
    /\ rt[q].pc = "search"
    /\ rt[q].pq = {}
    /\ rt' = [rt EXCEPT ![q].pc = "searched"]
    /\ UNCHANGED <<stops, trips, stop_times, cd, http>>

\* lines 350-352: a stale entry is dropped
PopStale(q) ==
    /\ rt[q].pc = "search"
    /\ rt[q].pq # {}
    /\ LET e == HeapTop(rt[q].pq)
       IN  /\ Stale(e[1], rt[q].best_time[e[2]], Eps(rt[q].walk_speed_m_s))
           /\ rt' = [rt EXCEPT ![q] = Popped(rt[q])]
    /\ UNCHANGED <<stops, trips, stop_times, cd, http>>

\* lines 350-364: the popped label is beyond the best destination arrival
PopPrune(q) ==
    /\ rt[q].pc = "search"
    /\ rt[q].pq # {}
    /\ LET e == HeapTop(rt[q].pq)
       IN  /\ ~Stale(e[1], rt[q].best_time[e[2]], Eps(rt[q].walk_speed_m_s))
           /\ Pruned(e[1], Settled(rt[q]).best_dest_total_sec)
           /\ rt' = [rt EXCEPT ![q] = [Settled(rt[q]) EXCEPT !.pc = "searched"]]
    /\ UNCHANGED <<stops, trips, stop_times, cd, http>>

\* lines 350-384: the popped stop is settled and its edges are relaxed
PopRelax(q) ==
    /\ rt[q].pc = "search"
    /\ rt[q].pq # {}
    /\ LET e == HeapTop(rt[q].pq)
       IN  /\ ~Stale(e[1], rt[q].best_time[e[2]], Eps(rt[q].walk_speed_m_s))
           /\ ~Pruned(e[1], Settled(rt[q]).best_dest_total_sec)
           /\ rt' = [rt EXCEPT ![q] = Relaxed(rt[q])]
    /\ UNCHANGED <<stops, trips, stop_times, cd, http>>

\* lines 386-391
Decide(q) ==
    /\ rt[q].pc = "searched"
    /\ rt' = [rt EXCEPT ![q] = Decided(rt[q])]
    /\ UNCHANGED <<stops, trips, stop_times, cd, http>>

\* lines 393-406: one iteration of the predecessor walk
WalkBack(q) ==
    /\ rt[q].pc = "walkback"
    /\ rt' = [rt EXCEPT ![q] = WalkedBack(rt[q])]
    /\ UNCHANGED <<stops, trips, stop_times, cd, http>>

\* lines 408-557
BuildLegs(q) ==
    /\ rt[q].pc = "legs"
    /\ rt' = [rt EXCEPT ![q] = LegsBuilt(rt[q], trips)]
    /\ UNCHANGED <<stops, trips, stop_times, cd, http>>

\* one step of an invocation that is alone with the tables
Step(s, stops_rows, trips_rows, st_rows) ==
    CASE s.pc = "start"    -> Built(s, stops_rows, st_rows)
      [] s.pc = "seed"     -> Seeded(s)
      [] s.pc = "search"   ->
            IF s.pq = {} THEN [s EXCEPT !.pc = "searched"]
            ELSE IF Stale(HeapTop(s.pq)[1], s.best_time[HeapTop(s.pq)[2]],
                          Eps(s.walk_speed_m_s)) THEN Popped(s)
            ELSE IF Pruned(HeapTop(s.pq)[1], Settled(s).best_dest_total_sec)
            THEN [Settled(s) EXCEPT !.pc = "searched"]
            ELSE Relaxed(s)
      [] s.pc = "searched" -> Decided(s)
      [] s.pc = "walkback" -> WalkedBack(s)
      [] s.pc = "legs"     -> LegsBuilt(s, trips_rows)
      [] OTHER             -> s

\* the invocation s run to its return with no other invocation in flight
RECURSIVE RunAlone(_, _, _, _)
RunAlone(s, stops_rows, trips_rows, st_rows) ==
    IF s.pc \in {"idle", "done"} THEN s
    ELSE RunAlone(Step(s, stops_rows, trips_rows, st_rows), stops_rows, trips_rows, st_rows)

NextRoute ==
    \E q \in Queries :
        \/ BuildGraph(q)
        \/ SeedLabels(q)
        \/ QueueEmpty(q)
        \/ PopStale(q)
        \/ PopPrune(q)
        \/ PopRelax(q)
        \/ Decide(q)
        \/ WalkBack(q)
        \/ BuildLegs(q)

-----------------------------------------------------------------------------
(* query_closest_departures and its helpers (db.py 27-159)                 *)

\* datetime.fromisoformat accepts the text: the model holds a parsed text as
\* the datetime [day, sec] and any other text as NotIso
NotIso == [text |-> "not ISO 8601"]

IsoParses(value) == "sec" \in DOMAIN value

\* extract_time_part_iso(value).strftime("%H:%M:%S")
extract_time_part_iso(value) ==
    <<value.sec \div 3600, (value.sec % 3600) \div 60, value.sec % 60>>

\* datetime.replace(hour=h, minute=m, second=s) accepts the fields
ReplaceOk(hms) ==
    /\ Len(hms) = 3
    /\ hms[1] \in 0..23 /\ hms[2] \in 0..59 /\ hms[3] \in 0..59

\* combine_date_and_hms(base_iso, hms) when it does not raise
combine_date_and_hms(base_iso, hms) ==
    [day |-> base_iso.day, sec |-> hms[1] * 3600 + hms[2] * 60 + hms[3]]

\* a >= b on zero-padded "HH:MM:SS" text, as SQLite compares TEXT
TextGE(a, b) ==
    \/ a[1] > b[1]
    \/ a[1] = b[1] /\ a[2] > b[2]
    \/ a[1] = b[1] /\ a[2] = b[2] /\ a[3] >= b[3]

\* mutant: the boundary of the radius is exclusive
WithinRadiusStrict(dist, radius_m) == dist < radius_m

\* line 39
WithinRadius(dist, radius_m) == dist <= radius_m

\* mutant: the candidates stay in the order of table stops
Unsorted(cs) == cs

\* candidates.sort(key = distance_m): stable
RECURSIVE SortByDistance(_)
SortByDistance(cs) ==
    IF cs = <<>> THEN <<>>
    ELSE LET i == CHOOSE k \in 1..Len(cs) :
                      /\ \A j \in 1..Len(cs) : cs[k].distance_m <= cs[j].distance_m
                      /\ \A j \in 1..(k-1) : cs[k].distance_m < cs[j].distance_m
             rest == [j \in 1..(Len(cs)-1) |-> IF j < i THEN cs[j] ELSE cs[j+1]]
         IN  <<cs[i]>> \o SortByDistance(rest)

\* lines 27-48
fetch_candidate_stops(stops_rows, start_lat, radius_m) ==
    LET Ok(r) == /\ FloatOk(r.stop_lat)
                 /\ WithinRadius(haversine_distance_m(start_lat, Float(r.stop_lat)), radius_m)
        rows == SelectSeq(stops_rows, Ok)
    IN  SortByDistance(
          [i \in 1..Len(rows) |->
              [stop_id    |-> rows[i].stop_id,
               name       |-> rows[i].stop_name,
               latitude   |-> Float(rows[i].stop_lat),
               distance_m |-> haversine_distance_m(start_lat, Float(rows[i].stop_lat))]])

\* lines 59-66: the visit the filter starts from, as a set of zero or one row
FilterVisit(st_rows, trip_id, current_stop_id) ==
    LET at == {r \in Range(st_rows) : r.trip_id = trip_id /\ r.stop_id = current_stop_id}
    IN  {r \in at : \A o \in at : r.stop_sequence <= o.stop_sequence}

\* lines 69-78: the next visit whose stop is in table stops, zero or one row
NextVisit(st_rows, stops_rows, trip_id, seq) ==
    LET ids   == {stops_rows[i].stop_id : i \in 1..Len(stops_rows)}
        later == {r \in Range(st_rows) : /\ r.trip_id = trip_id
                                         /\ r.stop_sequence > seq
                                         /\ r.stop_id \in ids}
    IN  {r \in later : \A o \in later : r.stop_sequence <= o.stop_sequence}

StopRow(stops_rows, sid) == CHOOSE r \in Range(stops_rows) : r.stop_id = sid

\* line 84
NotFarther(next_to_dest, current_to_dest) == next_to_dest <= current_to_dest

\* lines 51-84: "true", "false", or "raise" when float() of the next stop's
\* coordinate fails
is_trip_towards_destination(st_rows, stops_rows, trip_id, current_stop_id, current_lat, dest_lat) ==
    LET first == FilterVisit(st_rows, trip_id, current_stop_id)
    IN  IF first = {} THEN "true"
        ELSE LET seq  == (CHOOSE r \in first : TRUE).stop_sequence
                 next == NextVisit(st_rows, stops_rows, trip_id, seq)
             IN  IF next = {} THEN "true"
                 ELSE LET nlat == StopRow(stops_rows, (CHOOSE r \in next : TRUE).stop_id).stop_lat
                      IN  IF ~FloatOk(nlat) THEN "raise"
                          ELSE IF NotFarther(haversine_distance_m(Float(nlat), dest_lat),
                                             haversine_distance_m(current_lat, dest_lat))
                               THEN "true" ELSE "false"

\* line 120
RowLimit == 3

\* mutant: the lookup does not compare departure_time with the reference
MatchingAnyTime(st_rows, trips_rows, stop_id, time_part) ==
    {i \in 1..Len(st_rows) :
        /\ st_rows[i].stop_id = stop_id
        /\ st_rows[i].trip_id \in {trips_rows[k].trip_id : k \in 1..Len(trips_rows)}}

\* rows of stop_times joined with trips that match lines 117-118
Matching(st_rows, trips_rows, stop_id, time_part) ==
    {i \in 1..Len(st_rows) :
        /\ st_rows[i].stop_id = stop_id
        /\ st_rows[i].trip_id \in {trips_rows[k].trip_id : k \in 1..Len(trips_rows)}
        /\ TextGE(st_rows[i].departure_time, time_part)}

\* every answer SQLite may give to lines 107-122: the first RowLimit matching
\* rows in ascending departure_time, rows of equal departure_time in any order
DepartureRows(st_rows, trips_rows, stop_id, time_part) ==
    LET m == Matching(st_rows, trips_rows, stop_id, time_part)
        n == IF Cardinality(m) < RowLimit THEN Cardinality(m) ELSE RowLimit
    IN  {[k \in 1..n |-> st_rows[f[k]]] :
            f \in {g \in [1..n -> m] :
                     /\ \A a, b \in 1..n : a < b => g[a] # g[b]
                     /\ \A a, b \in 1..n :
                           a < b => TextGE(st_rows[g[b]].departure_time,
                                           st_rows[g[a]].departure_time)
                     /\ \A x \in m \ {g[k] : k \in 1..n} :
                           \A a \in 1..n : TextGE(st_rows[x].departure_time,
                                                  st_rows[g[a]].departure_time)}}

\* mutant: the limit test is off by one
LimitExceeded(n, limit) == n > limit

\* lines 104 and 125
LimitReached(n, limit) == n >= limit

RouteIdOf(trips_rows, trip_id) ==
    (CHOOSE r \in Range(trips_rows) : r.trip_id = trip_id).route_id

\* lines 140-157
Departure(stop, row, trips_rows, start_time_iso) ==
    [trip_id  |-> row.trip_id,
     route_id |-> RouteIdOf(trips_rows, row.trip_id),
     stop     |-> [name               |-> stop.name,
                   coordinates        |-> stop.latitude,
                   arrival_time       |-> combine_date_and_hms(start_time_iso, row.arrival_time),
                   departure_time     |-> combine_date_and_hms(start_time_iso, row.departure_time),
                   walking_distance_m |-> stop.distance_m]]

CdIdle ==
    [pc |-> "idle", start |-> 0, dest |-> 0, start_time_iso |-> [day |-> 0, sec |-> 0],
     limit |-> 0, radius_m |-> 0, time_part |-> <<0, 0, 0>>, candidate_stops |-> <<>>,
     i |-> 0, rows |-> <<>>, j |-> 0, results |-> <<>>]

\* a call query_closest_departures(city, start, dest, start_time_iso, limit, radius_m)
CdRequest(start, dest, start_time_iso, limit, radius_m) ==
    [CdIdle EXCEPT !.pc = "start", !.start = start, !.dest = dest,
                   !.start_time_iso = start_time_iso, !.limit = limit,
                   !.radius_m = radius_m]

\* lines 93-101; parse_iso_datetime raises on a text that is not ISO 8601
CandidatesFetched(c, stops_rows) ==
    IF ~IsoParses(c.start_time_iso) THEN [c EXCEPT !.pc = "raised"]
    ELSE [c EXCEPT !.pc = "stops",
                   !.time_part = extract_time_part_iso(c.start_time_iso),
                   !.candidate_stops = fetch_candidate_stops(stops_rows, c.start, c.radius_m),
                   !.i = 1,
                   !.results = <<>>]

\* lines 103-105 and 159: the loop over the candidates is at its end
CandidatesEnd(c) == c.i > Len(c.candidate_stops) \/ LimitReached(Len(c.results), c.limit)

\* lines 124-126: the loop over the rows is at its end
RowsAtEnd(c) == c.j > Len(c.rows) \/ LimitReached(Len(c.results), c.limit)

\* lines 127-157: row c.rows[c.j] is filtered and, on pass, appended
RowProcessed(c, stops_rows, trips_rows, st_rows) ==
    LET stop == c.candidate_stops[c.i]
        row  == c.rows[c.j]
        dir  == is_trip_towards_destination(st_rows, stops_rows, row.trip_id, row.stop_id,
                                            stop.latitude, c.dest)
    IN  IF dir = "raise" THEN [c EXCEPT !.pc = "raised"]
        ELSE IF dir = "false" THEN [c EXCEPT !.j = @ + 1]
        ELSE IF ~ReplaceOk(row.arrival_time) \/ ~ReplaceOk(row.departure_time)
        THEN [c EXCEPT !.pc = "raised"]
        ELSE [c EXCEPT !.j = @ + 1,
                       !.results = Append(@, Departure(stop, row, trips_rows,
                                                       c.start_time_iso))]

\* lines 93-101
FetchCandidates ==
    /\ cd.pc = "start"
    /\ cd' = CandidatesFetched(cd, stops)
    /\ UNCHANGED <<stops, trips, stop_times, rt, http>>

\* lines 103-105 and 159: the loop over the candidates ends
ReturnResults ==
    /\ cd.pc = "stops"
    /\ CandidatesEnd(cd)
    /\ cd' = [cd EXCEPT !.pc = "done"]
    /\ UNCHANGED <<stops, trips, stop_times, rt, http>>

\* lines 103-123: the departures of the next candidate are fetched
QueryStop ==
    /\ cd.pc = "stops"
    /\ ~CandidatesEnd(cd)
    /\ \E rows \in DepartureRows(stop_times, trips,
                                 cd.candidate_stops[cd.i].stop_id, cd.time_part) :
          cd' = [cd EXCEPT !.pc = "rows", !.rows = rows, !.j = 1]
    /\ UNCHANGED <<stops, trips, stop_times, rt, http>>

\* lines 124-126: the loop over the rows ends, by exhaustion or by the limit
RowsEnd ==
    /\ cd.pc = "rows"
    /\ RowsAtEnd(cd)
    /\ cd' = [cd EXCEPT !.pc = "stops", !.i = @ + 1]
    /\ UNCHANGED <<stops, trips, stop_times, rt, http>>

\* lines 124-157: one row is filtered and, on pass, appended
ProcessRow ==
    /\ cd.pc = "rows"
    /\ ~RowsAtEnd(cd)
    /\ cd' = RowProcessed(cd, stops, trips, stop_times)
    /\ UNCHANGED <<stops, trips, stop_times, rt, http>>

\* the states that follow c when the invocation is alone with the tables
CdSteps(c, stops_rows, trips_rows, st_rows) ==
    CASE c.pc = "start" -> {CandidatesFetched(c, stops_rows)}
      [] c.pc = "stops" ->
            IF CandidatesEnd(c) THEN {[c EXCEPT !.pc = "done"]}
            ELSE {[c EXCEPT !.pc = "rows", !.rows = rows, !.j = 1] :
                     rows \in DepartureRows(st_rows, trips_rows,
                                            c.candidate_stops[c.i].stop_id, c.time_part)}
      [] c.pc = "rows"  ->
            IF RowsAtEnd(c) THEN {[c EXCEPT !.pc = "stops", !.i = @ + 1]}
            ELSE {RowProcessed(c, stops_rows, trips_rows, st_rows)}
      [] OTHER          -> {c}

\* the states in which the invocation c can end when no other is in flight
RECURSIVE CdRunAlone(_, _, _, _)
CdRunAlone(c, stops_rows, trips_rows, st_rows) ==
    IF c.pc \in {"idle", "done", "raised"} THEN {c}
    ELSE UNION {CdRunAlone(n, stops_rows, trips_rows, st_rows) :
                   n \in CdSteps(c, stops_rows, trips_rows, st_rows)}

NextDep ==
    \/ FetchCandidates
    \/ ReturnResults
    \/ QueryStop
    \/ RowsEnd
    \/ ProcessRow

-----------------------------------------------------------------------------
(* The request handlers of backend/app.py and get_trip_details             *)
(* (db.py 162-200).  A query-string parameter is <<"missing">> when the    *)
(* request does not carry it, <<"num", n>> when it is the text of the      *)
(* number n ("lat,lon" for a coordinate pair), <<"iso", t>> when it is the *)
(* ISO 8601 text of the datetime t, and <<"text">> for any other text.     *)

\* str.lower() on the city names of the model
Lower(city) ==
    CASE city \in {"Wroclaw", "wroclaw"} -> "wroclaw"
      [] city = "Warsaw"                  -> "warsaw"
      [] OTHER                            -> city

\* mutant: the city is compared without lower()
SupportedExact(city) == city = "wroclaw"

\* lines 37 and 92
Supported(city) == Lower(city) = "wroclaw"

\* lines 43-44: the defaults of limit and radius_m
DefaultLimit == 5
DefaultRadius == 1000

\* request.args.get(name, default)
ArgOr(value, default) == IF value[1] = "missing" THEN default ELSE value

\* _parse_coordinates (lines 20-27): the position or None
parse_coordinates(value) == IF value[1] = "num" THEN value ELSE <<"None">>

\* lines 59-62: int(limit) does not raise ValueError
IntOk(value) == value[1] = "num"

\* the readings of datetime.now(timezone.utc)
NowTimes == {[day |-> 0, sec |-> 28740], [day |-> 0, sec |-> 28920]}

\* db.py 162-200: "None", "raise" when float() of a coordinate fails, or the
\* details of the trip
get_trip_details(trips_rows, st_rows, stops_rows, trip_id) ==
    IF \A r \in Range(trips_rows) : r.trip_id # trip_id THEN [status |-> "None"]
    ELSE LET ids  == {stops_rows[i].stop_id : i \in 1..Len(stops_rows)}
             rows == OrderByTripSeq(SelectSeq(st_rows,
                        LAMBDA r : r.trip_id = trip_id /\ r.stop_id \in ids))
         IN  IF \E i \in 1..Len(rows) : ~FloatOk(StopRow(stops_rows, rows[i].stop_id).stop_lat)
             THEN [status |-> "raise"]
             ELSE [status   |-> "ok",
                   trip_id  |-> trip_id,
                   route_id |-> RouteIdOf(trips_rows, trip_id),
                   stops    |-> [i \in 1..Len(rows) |->
                       [name           |-> StopRow(stops_rows, rows[i].stop_id).stop_name,
                        coordinates    |-> Float(StopRow(stops_rows, rows[i].stop_id).stop_lat),
                        arrival_time   |-> rows[i].arrival_time,
                        departure_time |-> rows[i].departure_time]]]

HttpIdle ==
    [pc |-> "idle", endpoint |-> "none", city |-> "wroclaw", trip_id |-> "T",
     start_coordinates |-> <<"missing">>, end_coordinates |-> <<"missing">>,
     start_time |-> <<"missing">>, limit |-> <<"missing">>, radius_m |-> <<"missing">>,
     start |-> <<"unset">>, end |-> <<"unset">>, status |-> 0, body |-> [kind |-> "none"]]

\* GET /public_transport/city/<city>/closest_departures?...
GetClosestDepartures(city, start_coordinates, end_coordinates, start_time, limit, radius_m) ==
    [HttpIdle EXCEPT !.pc = "received", !.endpoint = "closest_departures", !.city = city,
                     !.start_coordinates = start_coordinates,
                     !.end_coordinates = end_coordinates,
                     !.start_time = start_time, !.limit = limit, !.radius_m = radius_m]

\* GET /public_transport/city/<city>/trip/<trip_id>
GetTrip(city, trip_id) ==
    [HttpIdle EXCEPT !.pc = "received", !.endpoint = "trip", !.city = city,
                     !.trip_id = trip_id]

Response(h, status, body) == [h EXCEPT !.pc = "responded", !.status = status, !.body = body]

\* jsonify({"error": ...})
ErrorBody == [kind |-> "error"]

\* app.py 36-72: the handler up to the call of query_closest_departures
closest_departures ==
    /\ http.pc = "received"
    /\ http.endpoint = "closest_departures"
    /\ \E now \in NowTimes :
          LET start      == parse_coordinates(http.start_coordinates)
              end        == parse_coordinates(http.end_coordinates)
              limit      == ArgOr(http.limit, <<"num", DefaultLimit>>)
              radius_m   == ArgOr(http.radius_m, <<"num", DefaultRadius>>)
              start_time == IF http.start_time[1] = "missing" THEN now
                            ELSE IF http.start_time[1] = "iso" THEN http.start_time[2]
                            ELSE NotIso
              parsed     == [http EXCEPT !.start = start, !.end = end]
          IN  IF ~Supported(http.city)
              THEN http' = Response(http, 404, ErrorBody) /\ cd' = cd
              ELSE IF start = <<"None">> \/ end = <<"None">>
              THEN http' = Response(parsed, 400, ErrorBody) /\ cd' = cd
              ELSE IF ~IntOk(limit) \/ ~FloatOk(radius_m)
              THEN http' = Response(parsed, 400, ErrorBody) /\ cd' = cd
              ELSE /\ http' = [parsed EXCEPT !.pc = "querying"]
                   /\ cd' = CdRequest(start[2], end[2], start_time, limit[2], radius_m[2])
    /\ UNCHANGED <<stops, trips, stop_times, rt>>

\* app.py 72-87: the query returned its list
departures_returned ==
    /\ http.pc = "querying"
    /\ cd.pc = "done"
    /\ http' = Response(http, 200, [kind |-> "departures", departures |-> cd.results])
    /\ UNCHANGED <<stops, trips, stop_times, rt, cd>>

\* app.py 72: the query raised and no handler of the application catches
\* it: Flask answers 500
departures_raised ==
    /\ http.pc = "querying"
    /\ cd.pc = "raised"
    /\ http' = Response(http, 500, [kind |-> "internal server error"])
    /\ UNCHANGED <<stops, trips, stop_times, rt, cd>>

\* app.py 91-107
trip_details ==
    /\ http.pc = "received"
    /\ http.endpoint = "trip"
    /\ LET details == get_trip_details(trips, stop_times, stops, http.trip_id)
       IN  http' = IF ~Supported(http.city) THEN Response(http, 404, ErrorBody)
                   ELSE IF details.status = "raise"
                   THEN Response(http, 500, [kind |-> "internal server error"])
                   ELSE IF details.status = "None" THEN Response(http, 404, ErrorBody)
                   ELSE Response(http, 200, [kind |-> "trip_details",
                                             trip_details |-> details])
    /\ UNCHANGED <<stops, trips, stop_times, rt, cd>>

NextHttp ==
    \/ closest_departures
    \/ FetchCandidates
    \/ ReturnResults
    \/ QueryStop
    \/ RowsEnd
    \/ ProcessRow
    \/ departures_returned
    \/ departures_raised
    \/ trip_details

-----------------------------------------------------------------------------
(* The timetables and requests the model is run on                         *)

\* the reference instant of every request: 07:59:00 of day 0
RefTime == [day |-> 0, sec |-> 28740]

\* the time string of the minute n after the reference instant
Hms(n) == <<(479 + n) \div 60, (479 + n) % 60, 0>>

Num(n) == <<"num", n>>

StopRows ==
    << [stop_id |-> "A", stop_name |-> "A", stop_lat |-> Num(0)],
       [stop_id |-> "B", stop_name |-> "B", stop_lat |-> Num(2 * WalkUnit)],
       [stop_id |-> "C", stop_name |-> "C", stop_lat |-> Num(4 * WalkUnit)],
       [stop_id |-> "D", stop_name |-> "D", stop_lat |-> Num(6 * WalkUnit)] >>

TripRows == << [trip_id |-> "T", route_id |-> "1"],
               [trip_id |-> "U", route_id |-> "2"] >>

\* the visits of one trip along route: it reaches its first stop at minute
\* t0, dwells dwell minutes at every stop and rides hop minutes between stops
Visits(trip, route, t0, hop, dwell) ==
    [i \in 1..Len(route) |->
        [trip_id        |-> trip,
         stop_id        |-> route[i],
         stop_sequence  |-> i,
         arrival_time   |-> Hms(t0 + (i - 1) * (hop + dwell)),
         departure_time |-> Hms(t0 + (i - 1) * (hop + dwell) + dwell)]]

RoutesT == {<<"A">>, <<"A", "B">>, <<"A", "B", "C", "D">>}
RoutesU == {<<>>, <<"A", "B">>, <<"B", "C">>, <<"C", "D">>, <<"B", "D">>}
HopsT == {1, 3}
HopsU == {0, 1}

\* single trip A -> B leaving A at 08:00:00 and reaching B at 08:10:00
SingleTrip == Visits("T", <<"A", "B">>, 0, 10, 1)

Timetables ==
    {Visits("U", ru, t0, hu, 0) \o Visits("T", rtt, 0, ht, 1) :
        ru \in RoutesU, t0 \in 0..MaxMinute, hu \in HopsU, rtt \in RoutesT, ht \in HopsT}
    \cup {SingleTrip}

OriginLats == {0 - 2 * WalkUnit, 0, 15, WalkUnit}
DestLats == {2 * WalkUnit + 15, 5 * WalkUnit, 6 * WalkUnit}
MaxWalks == {k * WalkUnit : k \in 0..MaxWalkUnits}
WalkSpeeds == {1, 2}

Init ==
    /\ stops = StopRows
    /\ trips = TripRows
    /\ stop_times \in Timetables
    /\ \E o \in OriginLats, d \in DestLats, w \in MaxWalks, v \in WalkSpeeds :
          rt = [q \in Queries |-> IF q = 1 THEN Request(o, d, RefTime, w, v) ELSE Idle]
    /\ cd = CdIdle
    /\ http = HttpIdle

\* two calls in flight on the same timetable that differ in max_walk_m only
PairTimetables ==
    {Visits("U", ru, t0, 1, 0) \o Visits("T", rtt, 0, ht, 1) :
        ru \in RoutesU, t0 \in {0, MaxMinute}, rtt \in RoutesT, ht \in HopsT}

InitPair ==
    /\ stops = StopRows
    /\ trips = TripRows
    /\ stop_times \in PairTimetables
    /\ \E o \in OriginLats, d \in DestLats, v \in WalkSpeeds, w1, w2 \in MaxWalks :
          /\ w1 <= w2
          /\ rt = [q \in Queries |-> Request(o, d, RefTime, IF q = 1 THEN w1 ELSE w2, v)]
    /\ cd = CdIdle
    /\ http = HttpIdle

SpecPair == InitPair /\ [][NextRoute]_vars

\* the timetables and requests of query_closest_departures
DepRoutesT ==
    {<<"A", "B", "C">>, <<"C", "B", "A">>, <<"B", "C", "B", "A">>, <<"A", "C", "B", "A">>}
DepRoutesU ==
    {<<>>, <<"A", "B">>, <<"B", "A">>, <<"A", "B", "C", "B">>, <<"B", "C", "B", "C", "B">>}

\* trip T reaching A at 23:59:00 and leaving it at 24:00:00, the GTFS
\* notation of a service that runs past midnight
Overnight == Visits("T", <<"A", "B">>, 960, 1, 1)

DepTimetables ==
    {Visits("U", ru, t0, 1, 0) \o Visits("T", rtt, 0, 1, 1) :
        ru \in DepRoutesU, t0 \in 0..MaxMinute, rtt \in DepRoutesT}
    \cup {Visits("U", ru, 0, 1, 0) \o Overnight : ru \in DepRoutesU}

\* table stops as imported, and with a coordinate of C that is not a number
DepStopTables == {StopRows, [StopRows EXCEPT ![3].stop_lat = <<"text">>]}

\* 07:59:00 and 08:02:00 of day 0
DepRefTimes == {RefTime, [day |-> 0, sec |-> 28920]}
DepOriginLats == {0, 15, WalkUnit, 2 * WalkUnit - 15, 3 * WalkUnit}
DepDestLats == {0, 6 * WalkUnit}
Limits == (0 - 1)..MaxLimit

InitDep ==
    /\ stops \in DepStopTables
    /\ trips = TripRows
    /\ stop_times \in DepTimetables
    /\ rt = [q \in Queries |-> Idle]
    /\ http = HttpIdle
    /\ \E o \in DepOriginLats, d \in DepDestLats, t \in DepRefTimes,
          l \in Limits, r \in MaxWalks :
          cd = CdRequest(o, d, t, l, r)

SpecDep == InitDep /\ [][NextDep]_vars

\* timetables and stop tables with data-quality issues: a time string that
\* does not parse ("08:01"), an arrival that precedes the departure of the
\* previous visit (06:59:00), a coordinate that is not a number
Damaged(rows, k, kind) ==
    CASE kind = "arrival_short"   -> [rows EXCEPT ![k].arrival_time = <<8, 1>>]
      [] kind = "departure_short" -> [rows EXCEPT ![k].departure_time = <<8, 1>>]
      [] kind = "arrival_early"   -> [rows EXCEPT ![k].arrival_time = <<6, 59, 0>>]
      [] OTHER                    -> rows

Damages == {"none", "arrival_short", "departure_short", "arrival_early"}

DirtyTimetables ==
    UNION {{Damaged(tt, k, kind) : k \in 1..Len(tt), kind \in Damages} :
              tt \in {Visits("U", ru, t0, 1, 0) \o Visits("T", <<"A", "B", "C", "D">>, 0, ht, 1) :
                         ru \in RoutesU, t0 \in {0, MaxMinute}, ht \in HopsT}}

DirtyStopTables ==
    {StopRows} \cup {[StopRows EXCEPT ![k].stop_lat = <<"text">>] : k \in 2..3}

InitDirty ==
    /\ stops \in DirtyStopTables
    /\ trips = TripRows
    /\ stop_times \in DirtyTimetables
    /\ \E o \in OriginLats, d \in DestLats, w \in MaxWalks, v \in WalkSpeeds :
          rt = [q \in Queries |-> IF q = 1 THEN Request(o, d, RefTime, w, v) ELSE Idle]
    /\ cd = CdIdle
    /\ http = HttpIdle

SpecDirty == InitDirty /\ [][NextRoute]_vars

\* services that run past midnight: T reaches its first stop at 23:59:00 and
\* leaves it at 24:00:00; with a ride of 60 minutes it reaches the second
\* stop at 25:00:00, 90000 seconds after midnight
NightHops == {1, 60}

NightTimetables ==
    {Visits("U", ru, 960 + t0, 1, 0) \o Visits("T", rtt, 960, ht, 1) :
        ru \in RoutesU, t0 \in {0, MaxMinute}, rtt \in RoutesT, ht \in NightHops}

\* 07:59:00 and 23:59:00 of day 0
NightRefTimes == {RefTime, [day |-> 0, sec |-> 86340]}

InitNight ==
    /\ stops = StopRows
    /\ trips = TripRows
    /\ stop_times \in NightTimetables
    /\ \E o \in OriginLats, d \in DestLats, w \in MaxWalks, v \in WalkSpeeds, t \in NightRefTimes :
          rt = [q \in Queries |-> IF q = 1 THEN Request(o, d, t, w, v) ELSE Idle]
    /\ cd = CdIdle
    /\ http = HttpIdle

SpecNight == InitNight /\ [][NextRoute]_vars

\* two calls of compute_best_route and one call of query_closest_departures
\* in flight at once on the same tables, their steps interleaved
InterleavedTimetables ==
    {Visits("U", ru, t0, 1, 0) \o Visits("T", <<"A", "B", "C", "D">>, 0, 3, 1) :
        ru \in {<<"B", "C">>, <<"B", "D">>}, t0 \in {0, MaxMinute}}

InitInterleaved ==
    /\ stops = StopRows
    /\ trips = TripRows
    /\ stop_times \in InterleavedTimetables
    /\ \E o1 \in {0, 15}, w1 \in {WalkUnit, MaxWalkUnits * WalkUnit},
          d2 \in DestLats, v \in WalkSpeeds :
          rt = [q \in Queries |->
                  IF q = 1 THEN Request(o1, 6 * WalkUnit, RefTime, w1, v)
                  ELSE Request(WalkUnit, d2, RefTime, WalkUnit, v)]
    /\ \E d \in DepDestLats :
          cd = CdRequest(WalkUnit, d, RefTime, MaxLimit, WalkUnit)
    /\ http = HttpIdle

NextInterleaved == NextRoute \/ NextDep

SpecInterleaved == InitInterleaved /\ [][NextInterleaved]_vars

\* requests whose walking times fall within the tolerance 1e-6 s of a
\* timetable second. A walk of d metres at walk_speed_m_s lasts d ticks, so
\* with the speed FineSpeed one tick is half a microsecond, a second is
\* FineSpeed ticks and the tolerance is 2 ticks; the same searches arise at
\* any speed when every length is scaled with it (1.0000005 m at 1 m/s).
FineSpeed == 2000000

\* the time string of the second n after midnight
HmsOfSecond(n) == <<n \div 3600, (n \div 60) % 60, n % 60>>

\* the visits of one trip along route: it reaches its first stop at second
\* t0 and rides hop seconds between stops without dwelling
VisitsBySecond(trip, route, t0, hop) ==
    [i \in 1..Len(route) |->
        [trip_id        |-> trip,
         stop_id        |-> route[i],
         stop_sequence  |-> i,
         arrival_time   |-> HmsOfSecond(t0 + (i - 1) * hop),
         departure_time |-> HmsOfSecond(t0 + (i - 1) * hop)]]

\* A and B lie one second of walking from the origin plus offA and offB
\* ticks, C three seconds and D four seconds
FineStopRows(offA, offB) ==
    << [stop_id |-> "A", stop_name |-> "A", stop_lat |-> Num(FineSpeed + offA)],
       [stop_id |-> "B", stop_name |-> "B", stop_lat |-> Num(FineSpeed + offB)],
       [stop_id |-> "C", stop_name |-> "C", stop_lat |-> Num(3 * FineSpeed)],
       [stop_id |-> "D", stop_name |-> "D", stop_lat |-> Num(4 * FineSpeed)] >>

\* on the second, half a microsecond late, one and a half microseconds late
FineOffsets == {0, 1, 3}

FineRoutesT ==
    {<<"A", "B">>, <<"A", "B", "C">>, <<"A", "B", "A">>, <<"A", "B", "A", "C">>,
     <<"B", "A", "C">>}
FineRoutesU == {<<>>, <<"B", "A">>, <<"B", "C">>, <<"A", "C", "D">>}

FineTimetables ==
    {VisitsBySecond("U", ru, t0, hu) \o VisitsBySecond("T", rtt, 1, ht) :
        ru \in FineRoutesU, t0 \in 1..2, hu \in 0..1, rtt \in FineRoutesT, ht \in 0..1}

\* midnight of day 0
Midnight == [day |-> 0, sec |-> 0]

InitFine ==
    /\ \E offA \in FineOffsets, offB \in FineOffsets : stops = FineStopRows(offA, offB)
    /\ trips = TripRows
    /\ stop_times \in FineTimetables
    /\ \E d \in {FineSpeed + 1, 3 * FineSpeed}, w \in {FineSpeed + 1, FineSpeed + 3} :
          rt = [q \in Queries |->
                  IF q = 1 THEN Request(0, d, Midnight, w, FineSpeed) ELSE Idle]
    /\ cd = CdIdle
    /\ http = HttpIdle

SpecFine == InitFine /\ [][NextRoute]_vars

\* a few of these requests, for the properties of whole executions
InitFineFew ==
    /\ \E off \in {<<0, 0>>, <<1, 3>>} : stops = FineStopRows(off[1], off[2])
    /\ trips = TripRows
    /\ \E ru \in {<<>>, <<"B", "A">>, <<"B", "C">>}, rtt \in {<<"A", "B", "C">>, <<"A", "B", "A", "C">>},
          ht \in 0..1 :
          stop_times = VisitsBySecond("U", ru, 2, 1) \o VisitsBySecond("T", rtt, 1, ht)
    /\ \E d \in {FineSpeed + 1, 3 * FineSpeed} :
          rt = [q \in Queries |->
                  IF q = 1 THEN Request(0, d, Midnight, FineSpeed + 3, FineSpeed) ELSE Idle]
    /\ cd = CdIdle
    /\ http = HttpIdle

\* the steps of the main loop (lines 349-384) and of the reconstruction
\* (lines 386-557)
SearchStep == \E q \in Queries : QueueEmpty(q) \/ PopStale(q) \/ PopPrune(q) \/ PopRelax(q)
ReconstructionStep == \E q \in Queries : Decide(q) \/ WalkBack(q) \/ BuildLegs(q)

\* the interpreter runs a call on: a step of either loop that can be taken
\* is taken
SpecFineFair ==
    InitFineFew /\ [][NextRoute]_vars /\ WF_vars(SearchStep) /\ WF_vars(ReconstructionStep)

\* the requests the handlers are run on; table stop_times is stored against
\* the order of stop_sequence
HttpCities == {"Wroclaw", "wroclaw", "Warsaw"}
HttpTripIds == {"T", "U", "X"}
CoordinateArgs == {<<"missing">>, <<"text">>, <<"num", 0>>, <<"num", WalkUnit>>}
LimitArgs == {<<"missing">>, <<"text">>, <<"num", 1>>}
RadiusArgs == {<<"missing">>, <<"text">>, <<"num", WalkUnit>>}
TimeArgs == {<<"missing">>, <<"text">>, <<"iso", RefTime>>}

HttpTimetables ==
    {Reverse(Visits("U", ru, 1, 1, 0) \o Visits("T", rtt, 0, 1, 1)) :
        ru \in {<<>>, <<"B", "A">>}, rtt \in {<<"A", "B", "C">>, <<"B", "C", "B", "A">>}}
    \cup {Overnight}

InitHttp ==
    /\ stops \in DepStopTables
    /\ trips = TripRows
    /\ stop_times \in HttpTimetables
    /\ rt = [q \in Queries |-> Idle]
    /\ cd = CdIdle
    /\ \/ \E c \in HttpCities, s \in CoordinateArgs, e \in CoordinateArgs,
             t \in TimeArgs, l \in LimitArgs, r \in RadiusArgs :
             http = GetClosestDepartures(c, s, e, t, l, r)
       \/ \E c \in HttpCities, id \in HttpTripIds : http = GetTrip(c, id)

SpecHttp == InitHttp /\ [][NextHttp]_vars

Spec == Init /\ [][NextRoute]_vars

-----------------------------------------------------------------------------
(* Reference semantics of a feasible journey, independent of the search    *)

Done(q) == rt[q].pc = "done"
Found(q) == Done(q) /\ rt[q].result.status = "route"
Lats == StopsDict(stops)

\* ticks at which the rider of query q stands at sid after walking in, INF
\* when sid is farther than max_walk_m from the origin
WalkInArrival(q, sid) ==
    IF Abs(Lats[sid] - rt[q].start) <= rt[q].max_walk_m
    THEN rt[q].start_time_iso.sec * rt[q].walk_speed_m_s + Abs(Lats[sid] - rt[q].start)
    ELSE INF

TransitEdges(q) == Range(AllEdges(stop_times, Lats, rt[q].walk_speed_m_s))

\* one more ride allowed on top of the arrivals ea
OneMoreRide(edges, ea) ==
    [sid \in DOMAIN ea |->
        MinOf({ea[sid]} \cup
              {e.arr_sec : e \in {f \in edges :
                                     /\ f.to_stop_id = sid
                                     /\ ea[f.from_stop_id] < INF
                                     /\ f.dep_sec >= ea[f.from_stop_id]}})]

RECURSIVE Closure(_, _)
Closure(edges, ea) ==
    LET next == OneMoreRide(edges, ea)
    IN  IF next = ea THEN ea ELSE Closure(edges, next)

\* earliest arrival at every stop over all feasible journeys
EarliestArrival(q) ==
    Closure(TransitEdges(q), [sid \in DOMAIN Lats |-> WalkInArrival(q, sid)])

\* stops within max_walk_m of the destination
EgressStops(q) == {sid \in DOMAIN Lats : Abs(Lats[sid] - rt[q].dest) <= rt[q].max_walk_m}

\* arrival ticks at the destination of every feasible journey's best variant
FeasibleArrivals(q) ==
    LET ea == EarliestArrival(q)
    IN  {ea[sid] + Abs(Lats[sid] - rt[q].dest) :
            sid \in {x \in EgressStops(q) : ea[x] < INF}}

RideLegsOf(q) == SelectSeq(rt[q].result.legs, LAMBDA leg : leg.type = "ride")
RideSegs(q) == SelectSeq(rt[q].segments, LAMBDA seg : seg.mode = "ride")

-----------------------------------------------------------------------------
(* C1 - C3: the outcome of the search                                      *)

\* C1: whenever compute_best_route returns an itinerary, no feasible journey
\* (walk in within max_walk_m, ride catchable edges, walk out within
\* max_walk_m) reaches the destination strictly earlier than the itinerary.
C1_Optimal ==
    \A q \in Queries :
        Found(q) => \A a \in FeasibleArrivals(q) : rt[q].best_dest_total_sec <= a

\* an itinerary with a transfer was returned although a slower feasible
\* journey exists
C1_Witness ==
    \E q \in Queries :
        /\ Found(q)
        /\ Len(RideLegsOf(q)) >= 2
        /\ Cardinality(FeasibleArrivals(q)) >= 2

\* C2: compute_best_route returns None if and only if no stop within
\* max_walk_m of the destination is reachable by a walk-in and zero or more
\* catchable edges.
C2_NoneIffUnreachable ==
    \A q \in Queries :
        Done(q) => (rt[q].result.status = "None" <=> FeasibleArrivals(q) = {})

\* C3: when every stop is farther than max_walk_m from the origin, or every
\* stop is farther than max_walk_m from the destination, the result is None
\* and the search never ran (no label, no queue entry, no predecessor).
C3_NoWalkNoSearch ==
    \A q \in Queries :
        (/\ rt[q].pc \notin {"idle", "start"}
         /\ \/ \A sid \in DOMAIN Lats : Abs(Lats[sid] - rt[q].start) > rt[q].max_walk_m
            \/ \A sid \in DOMAIN Lats : Abs(Lats[sid] - rt[q].dest) > rt[q].max_walk_m)
        => /\ Done(q)
           /\ rt[q].result.status = "None"
           /\ rt[q].best_time = EmptyDict
           /\ rt[q].prev = EmptyDict
           /\ rt[q].pq = {}

\* the origin has a stop in range, the destination has none, None came back
C3_Witness ==
    \E q \in Queries :
        /\ Done(q)
        /\ rt[q].result.status = "None"
        /\ \E sid \in DOMAIN Lats : Abs(Lats[sid] - rt[q].start) <= rt[q].max_walk_m
        /\ \A sid \in DOMAIN Lats : Abs(Lats[sid] - rt[q].dest) > rt[q].max_walk_m

-----------------------------------------------------------------------------
(* C5: the single-trip timetable                                           *)

\* the request of q runs on the single trip A -> B (08:00:00 -> 08:10:00) at
\* 07:59:00 with A the only stop in walking range of the origin, B the only
\* stop in walking range of the destination, and A reached by 08:00:00
SingleTripCase(q) ==
    /\ stop_times = SingleTrip
    /\ rt[q].pc # "idle"
    /\ rt[q].start_time_iso = [day |-> 0, sec |-> 28740]
    /\ {sid \in DOMAIN Lats : WalkInArrival(q, sid) < INF} = {"A"}
    /\ EgressStops(q) = {"B"}
    /\ WalkInArrival(q, "A") <= 28800 * rt[q].walk_speed_m_s

\* the legs are walk to A, ride T from A at 08:00:00 to B at 08:10:00, walk
SingleTripLegs(q) ==
    LET legs == rt[q].result.legs
    IN  /\ Len(legs) = 3
        /\ legs[1].type = "walk" /\ legs[1].to.stop_id = "A"
        /\ legs[2].type = "ride" /\ legs[2].trip_id = "T"
        /\ legs[2].from.stop_id = "A" /\ legs[2].to.stop_id = "B"
        /\ legs[2].boarding_time = [day |-> 0, sec |-> 28800]
        /\ legs[2].arrival_time = [day |-> 0, sec |-> 29400]
        /\ legs[3].type = "walk" /\ legs[3].from.stop_id = "B"

WalkInTicks(q) == Abs(Lats["A"] - rt[q].start)
WalkOutTicks(q) == Abs(Lats["B"] - rt[q].dest)
RideTicks(q) == 600 * rt[q].walk_speed_m_s
WaitTicks(q) == 28800 * rt[q].walk_speed_m_s - WalkInArrival(q, "A")

\* C5 as stated: total_travel_time_sec is walk-in + ride + walk-out seconds
C5_AsStated ==
    \A q \in Queries :
        (Done(q) /\ SingleTripCase(q)) =>
            /\ rt[q].result.status = "route"
            /\ SingleTripLegs(q)
            /\ rt[q].result.total_travel_time_sec =
                   IntSec(WalkInTicks(q) + RideTicks(q) + WalkOutTicks(q),
                          rt[q].walk_speed_m_s)

\* C5 amended: in the single-trip case the legs are [walk-in, ride boarding at
\* 08:00:00, walk-out] and total_travel_time_sec is the whole seconds from the
\* reference time to the arrival: walk-in + wait at A + ride + walk-out.
C5_SingleTrip ==
    \A q \in Queries :
        (Done(q) /\ SingleTripCase(q)) =>
            /\ rt[q].result.status = "route"
            /\ SingleTripLegs(q)
            /\ rt[q].result.total_travel_time_sec =
                   IntSec(WalkInTicks(q) + WaitTicks(q) + RideTicks(q) + WalkOutTicks(q),
                          rt[q].walk_speed_m_s)

\* the single-trip case ended with a walk-in and a walk-out of positive length
C5_Witness ==
    \E q \in Queries :
        /\ Done(q) /\ SingleTripCase(q)
        /\ WalkInTicks(q) > 0 /\ WalkOutTicks(q) > 0

-----------------------------------------------------------------------------
(* C6 - C8: ride legs                                                      *)

\* run-length encoding of a sequence: <<value, length>> per maximal run
RECURSIVE Runs(_)
Runs(ts) ==
    IF ts = <<>> THEN <<>>
    ELSE LET r == Runs(Tail(ts))
         IN  IF r # <<>> /\ r[1][1] = Head(ts)
             THEN << <<Head(ts), r[1][2] + 1>> >> \o Tail(r)
             ELSE << <<Head(ts), 1>> >> \o r

\* C6: the ride legs are the maximal runs of equal trip id along the
\* predecessor chain: num_stops is 1 plus one per merged step, adjacent ride
\* legs differ in trip id, and the num_stops add up to the number of edges.
C6_LegMerging ==
    \A q \in Queries :
        Found(q) =>
            LET rl   == RideLegsOf(q)
                segs == RideSegs(q)
                runs == Runs([i \in 1..Len(segs) |-> segs[i].trip_id])
            IN  /\ Len(rl) = Len(runs)
                /\ \A i \in 1..Len(rl) :
                      rl[i].trip_id = runs[i][1] /\ rl[i].num_stops = runs[i][2]
                /\ \A i \in 1..(Len(rl) - 1) : rl[i].trip_id # rl[i+1].trip_id
                /\ SumSeq([i \in 1..Len(rl) |-> rl[i].num_stops]) = Len(segs)

\* an itinerary with a merged leg (two edges of one trip) and a transfer
C6_Witness ==
    \E q \in Queries :
        /\ Found(q)
        /\ Len(RideLegsOf(q)) >= 2
        /\ \E i \in 1..Len(RideLegsOf(q)) : RideLegsOf(q)[i].num_stops >= 2

\* C7 as stated: no trip id appears in two ride legs of one itinerary
C7_AsStated ==
    \A q \in Queries :
        Found(q) =>
            \A i, j \in 1..Len(RideLegsOf(q)) :
                i # j => RideLegsOf(q)[i].trip_id # RideLegsOf(q)[j].trip_id

\* C7 amended: two ride legs of one itinerary carry the same trip id only
\* when a ride leg of another trip lies between them.
C7_RepeatOnlyApart ==
    \A q \in Queries :
        Found(q) =>
            LET rl == RideLegsOf(q)
            IN  \A i, j \in 1..Len(rl) :
                    (i < j /\ rl[i].trip_id = rl[j].trip_id) =>
                        \E k \in (i+1)..(j-1) : rl[k].trip_id # rl[i].trip_id

\* an itinerary that leaves a trip, rides another and boards the first again
C7_Witness ==
    \E q \in Queries :
        /\ Found(q)
        /\ \E i, j \in 1..Len(RideLegsOf(q)) :
              i + 1 < j /\ RideLegsOf(q)[i].trip_id = RideLegsOf(q)[j].trip_id

\* visits of the leg's trip strictly between its boarding and alighting visit
IntermediateStops(leg) ==
    LET rows  == {r \in Range(stop_times) : r.trip_id = leg.trip_id}
        board == CHOOSE r \in rows : r.stop_id = leg.from.stop_id
        off   == CHOOSE r \in rows : r.stop_id = leg.to.stop_id
    IN  Cardinality({r \in rows : /\ board.stop_sequence < r.stop_sequence
                                  /\ r.stop_sequence < off.stop_sequence})

\* C8 as stated: num_stops is the number of intermediate stops
C8_AsStated ==
    \A q \in Queries :
        Found(q) =>
            \A i \in 1..Len(RideLegsOf(q)) :
                RideLegsOf(q)[i].num_stops = IntermediateStops(RideLegsOf(q)[i])

\* C8 amended: num_stops is the number of edges ridden, one more than the
\* number of intermediate stops; a ride to the very next stop has num_stops 1.
C8_NumStopsCountsEdges ==
    \A q \in Queries :
        Found(q) =>
            \A i \in 1..Len(RideLegsOf(q)) :
                RideLegsOf(q)[i].num_stops = IntermediateStops(RideLegsOf(q)[i]) + 1

\* an itinerary with a ride over an intermediate stop and a ride to the very
\* next stop of its trip
C8_Witness ==
    \E q \in Queries :
        /\ Found(q)
        /\ \E i, j \in 1..Len(RideLegsOf(q)) :
              /\ IntermediateStops(RideLegsOf(q)[i]) >= 1
              /\ IntermediateStops(RideLegsOf(q)[j]) = 0

-----------------------------------------------------------------------------
(* C4: two calls that differ in max_walk_m only                            *)

SameButWalk(p, q) ==
    /\ rt[p].start = rt[q].start
    /\ rt[p].dest = rt[q].dest
    /\ rt[p].start_time_iso = rt[q].start_time_iso
    /\ rt[p].walk_speed_m_s = rt[q].walk_speed_m_s

\* C4: for two calls on the same timetable, origin, destination, reference
\* time and walking speed with max_walk_m w1 <= w2, the call with w1 returns
\* None, or both return a route and the total_travel_time_sec of w1 is at
\* least that of w2.
C4_WalkMonotone ==
    \A p, q \in Queries :
        (/\ Done(p) /\ Done(q)
         /\ SameButWalk(p, q)
         /\ rt[p].max_walk_m <= rt[q].max_walk_m)
        => \/ rt[p].result.status = "None"
           \/ /\ rt[q].result.status = "route"
              /\ rt[p].result.total_travel_time_sec >= rt[q].result.total_travel_time_sec

\* the wider walking bound gave a strictly faster route
C4_Witness ==
    \E p, q \in Queries :
        /\ Found(p) /\ Found(q)
        /\ SameButWalk(p, q)
        /\ rt[p].max_walk_m < rt[q].max_walk_m
        /\ rt[p].result.total_travel_time_sec > rt[q].result.total_travel_time_sec

-----------------------------------------------------------------------------
(* C9, C10: query_closest_departures                                       *)

\* C9: the list of departures never holds more than limit entries, and it is
\* empty for limit <= 0.
C9_LimitRespected ==
    /\ cd.limit >= 0 => Len(cd.results) <= cd.limit
    /\ cd.limit <= 0 => cd.results = <<>>

\* the call returned exactly limit >= 2 entries with candidates left unscanned
C9_Witness ==
    /\ cd.pc = "done"
    /\ cd.limit >= 2
    /\ Len(cd.results) = cd.limit
    /\ cd.i <= Len(cd.candidate_stops)

\* the visits at which departure dep was boarded: same trip, stop and
\* departure time
BoardingVisits(dep) ==
    {r \in Range(stop_times) :
        /\ r.trip_id = dep.trip_id
        /\ r.stop_id = dep.stop.name
        /\ ReplaceOk(r.departure_time)
        /\ combine_date_and_hms(cd.start_time_iso, r.departure_time) = dep.stop.departure_time}

\* the direction at visit v is undeterminable or the stop visited next after
\* v is not farther from dest_lat than the stop of v
TowardsAfter(v, dest_lat) ==
    LET later == {r \in Range(stop_times) :
                     r.trip_id = v.trip_id /\ r.stop_sequence > v.stop_sequence}
    IN  \/ later = {}
        \/ LET next == CHOOSE r \in later : \A o \in later : r.stop_sequence <= o.stop_sequence
           IN  Abs(Lats[next.stop_id] - dest_lat) <= Abs(Lats[v.stop_id] - dest_lat)

\* C10: every returned departure passes the Direction Filter at its boarding
\* visit: the direction is undeterminable there, or the stop visited next
\* after the boarding visit is not farther from the destination.
C10_DirectionFilterPassed ==
    \A k \in 1..Len(cd.results) :
        \A v \in BoardingVisits(cd.results[k]) : TowardsAfter(v, cd.dest)

-----------------------------------------------------------------------------
(* C12: compute_best_route on a timetable with data-quality issues         *)

\* table stops without the rows whose coordinate is not a number
SoundStopRows == SelectSeq(stops, LAMBDA r : FloatOk(r.stop_lat))

\* b is the visit of a's trip that follows a immediately
Adjacent(a, b) ==
    /\ a.trip_id = b.trip_id
    /\ a.stop_sequence < b.stop_sequence
    /\ ~\E c \in Range(stop_times) : /\ c.trip_id = a.trip_id
                                     /\ a.stop_sequence < c.stop_sequence
                                     /\ c.stop_sequence < b.stop_sequence

\* the ride from visit a to visit b has no data-quality issue
SoundPair(a, b) ==
    /\ \E r \in Range(SoundStopRows) : r.stop_id = a.stop_id
    /\ \E r \in Range(SoundStopRows) : r.stop_id = b.stop_id
    /\ TimeParses(a.departure_time) /\ TimeParses(b.arrival_time)
    /\ gtfs_time_to_seconds(b.arrival_time) >= gtfs_time_to_seconds(a.departure_time)

\* the transit graph of the timetable without the stops and edges that have
\* a data-quality issue, as adjacency lists in timetable order
SoundAdjacency(v) ==
    LET ord   == OrderByTripSeq(stop_times)
        pairs == [i \in 1..(Len(ord) - 1) |-> <<ord[i], ord[i + 1]>>]
        sound == SelectSeq(pairs, LAMBDA p : Adjacent(p[1], p[2]) /\ SoundPair(p[1], p[2]))
        edges == [i \in 1..Len(sound) |->
                    [from_stop_id |-> sound[i][1].stop_id,
                     trip_id      |-> sound[i][1].trip_id,
                     to_stop_id   |-> sound[i][2].stop_id,
                     dep_sec      |-> gtfs_time_to_seconds(sound[i][1].departure_time) * v,
                     arr_sec      |-> gtfs_time_to_seconds(sound[i][2].arrival_time) * v]]
    IN  [sid \in {SoundStopRows[i].stop_id : i \in 1..Len(SoundStopRows)} |->
            SelectSeq(edges, LAMBDA e : e.from_stop_id = sid)]

\* what the call of query q returns on the sound stops and edges alone
SoundResult(q) ==
    LET req == Request(rt[q].start, rt[q].dest, rt[q].start_time_iso,
                       rt[q].max_walk_m, rt[q].walk_speed_m_s)
        s0  == Loaded(req, SoundStopRows, StopsDict(SoundStopRows),
                      SoundAdjacency(rt[q].walk_speed_m_s))
    IN  RunAlone(s0, SoundStopRows, trips, stop_times).result

\* C12: on a timetable with stops whose coordinates are not numbers, visits
\* whose time string does not parse and adjacent pairs whose arrival precedes
\* the departure, compute_best_route returns exactly what it returns on the
\* transit graph without those stops and without the edges of those pairs.
C12_DirtyAsRemoved ==
    \A q \in Queries : Done(q) => rt[q].result = SoundResult(q)

\* an itinerary with a ride was returned on a timetable that has a stop with
\* a non-numeric coordinate and an adjacent pair with a time issue between
\* two sound stops
C12_Witness ==
    \E q \in Queries :
        /\ Found(q)
        /\ RideLegsOf(q) # <<>>
        /\ Len(SoundStopRows) < Len(stops)
        /\ \E a, b \in Range(stop_times) :
              /\ Adjacent(a, b)
              /\ ~SoundPair(a, b)
              /\ \E r \in Range(SoundStopRows) : r.stop_id = a.stop_id
              /\ \E r \in Range(SoundStopRows) : r.stop_id = b.stop_id

-----------------------------------------------------------------------------
(* C17: the transit edges                                                  *)

\* invocation q has built its adjacency edges_by_stop
GraphBuilt(q) == DOMAIN rt[q].edges_by_stop # {}

\* the positions <<stop, index>> of the edges of invocation q
EdgeSlots(q) ==
    UNION {{<<sid, i>> : i \in 1..Len(rt[q].edges_by_stop[sid])} :
              sid \in DOMAIN rt[q].edges_by_stop}

\* the edge at slot x is the ride from visit a to visit b
EdgeIsPair(q, x, a, b) ==
    LET e == rt[q].edges_by_stop[x[1]][x[2]]
    IN  /\ e.from_stop_id = a.stop_id /\ x[1] = a.stop_id
        /\ e.to_stop_id = b.stop_id
        /\ e.trip_id = a.trip_id /\ e.trip_id = b.trip_id
        /\ e.dep_sec = gtfs_time_to_seconds(a.departure_time) * rt[q].walk_speed_m_s
        /\ e.arr_sec = gtfs_time_to_seconds(b.arrival_time) * rt[q].walk_speed_m_s

\* the pairs of visits that the claim gives an edge
EdgePairs ==
    {p \in Range(stop_times) \X Range(stop_times) : Adjacent(p[1], p[2]) /\ SoundPair(p[1], p[2])}

\* C17: the graph builder emits exactly one edge for every pair of
\* immediately consecutive visits of one trip whose stops were not excluded,
\* whose times parse and whose arrival does not precede the departure, and
\* no other edge: none between trips, none between non-adjacent visits, none
\* over a skipped visit; every edge has arr_sec >= dep_sec.
C17_EdgesExact ==
    \A q \in Queries :
        GraphBuilt(q) =>
            /\ \A p \in EdgePairs :
                  Cardinality({x \in EdgeSlots(q) : EdgeIsPair(q, x, p[1], p[2])}) = 1
            /\ \A x \in EdgeSlots(q) : \E p \in EdgePairs : EdgeIsPair(q, x, p[1], p[2])
            /\ Cardinality(EdgeSlots(q)) = Cardinality(EdgePairs)
            /\ \A x \in EdgeSlots(q) :
                  rt[q].edges_by_stop[x[1]][x[2]].arr_sec >= rt[q].edges_by_stop[x[1]][x[2]].dep_sec

\* a graph with edges of two trips was built from a timetable where a visit
\* b between two visits a and c at sound stops has no edge on either side
C17_Witness ==
    \E q \in Queries :
        /\ GraphBuilt(q)
        /\ {rt[q].edges_by_stop[x[1]][x[2]].trip_id : x \in EdgeSlots(q)} = {"T", "U"}
        /\ \E a, b, c \in Range(stop_times) :
              /\ Adjacent(a, b) /\ Adjacent(b, c)
              /\ ~SoundPair(a, b) /\ ~SoundPair(b, c)
              /\ \E r \in Range(SoundStopRows) : r.stop_id = a.stop_id
              /\ \E r \in Range(SoundStopRows) : r.stop_id = c.stop_id

-----------------------------------------------------------------------------
(* C18: times past midnight                                                *)

\* 3600 * HH + 60 * MM + SS of the time string "HH:MM:SS"
Clock(hms) == 3600 * hms[1] + 60 * hms[2] + hms[3]

\* seconds from the midnight of the reference day of query q to timestamp t
SinceMidnight(q, t) == (t.day - rt[q].start_time_iso.day) * 86400 + t.sec

\* t is a timestamp: its second of the day is below 86400
WellFormed(t) == t.sec \in 0..86399

\* C18: gtfs_time_to_seconds gives 3600*HH + 60*MM + SS without modulo, so
\* an hour above 23 gives 86400 or more; day_start_plus_seconds_to_iso adds
\* the seconds to the midnight of the reference day, so 90000 seconds give
\* 01:00:00 of the next day; and the times of every leg of an itinerary are
\* timestamps that lie, counted from the midnight of the reference day, at
\* the timetable times of the visits boarded and alighted at.
C18_OvernightKept ==
    \A q \in Queries :
        /\ \A r \in Range(stop_times) :
              /\ gtfs_time_to_seconds(r.arrival_time) = Clock(r.arrival_time)
              /\ r.arrival_time[1] > 23 => gtfs_time_to_seconds(r.arrival_time) >= 86400
        /\ GraphBuilt(q) =>
              \A x \in EdgeSlots(q) :
                  \E a, b \in Range(stop_times) :
                      /\ rt[q].edges_by_stop[x[1]][x[2]].dep_sec =
                             Clock(a.departure_time) * rt[q].walk_speed_m_s
                      /\ rt[q].edges_by_stop[x[1]][x[2]].arr_sec =
                             Clock(b.arrival_time) * rt[q].walk_speed_m_s
        /\ rt[q].pc \notin {"idle", "start", "seed"} =>
              day_start_plus_seconds_to_iso(rt[q].day_start_dt, 90000) =
                  [day |-> rt[q].start_time_iso.day + 1, sec |-> 3600]
        /\ Found(q) =>
              /\ rt[q].result.start_time = rt[q].start_time_iso
              /\ \A k \in 1..Len(rt[q].result.legs) :
                    LET leg == rt[q].result.legs[k]
                    IN  IF leg.type = "ride"
                        THEN /\ WellFormed(leg.boarding_time) /\ WellFormed(leg.arrival_time)
                             /\ \E a, b \in Range(stop_times) :
                                   /\ a.trip_id = leg.trip_id /\ b.trip_id = leg.trip_id
                                   /\ a.stop_id = leg.from.stop_id /\ b.stop_id = leg.to.stop_id
                                   /\ a.stop_sequence < b.stop_sequence
                                   /\ SinceMidnight(q, leg.boarding_time) = Clock(a.departure_time)
                                   /\ SinceMidnight(q, leg.arrival_time) = Clock(b.arrival_time)
                        ELSE /\ WellFormed(leg.start_time) /\ WellFormed(leg.arrival_time)
                             /\ (SinceMidnight(q, leg.arrival_time) - SinceMidnight(q, leg.start_time))
                                   \in {(leg.distance_m \div rt[q].walk_speed_m_s),
                                        (leg.distance_m \div rt[q].walk_speed_m_s) + 1}
                             /\ k = 1 => leg.start_time = rt[q].start_time_iso
                             /\ k > 1 => leg.start_time = rt[q].result.legs[k - 1].arrival_time

\* an itinerary asked for at 07:59:00 boards at 24:00:00 and alights at
\* 25:00:00, rendered as 00:00:00 and 01:00:00 of the next day
C18_Witness ==
    \E q \in Queries :
        /\ Found(q)
        /\ rt[q].start_time_iso.sec = 28740
        /\ \E k \in 1..Len(rt[q].result.legs) :
              /\ rt[q].result.legs[k].type = "ride"
              /\ rt[q].result.legs[k].boarding_time = [day |-> rt[q].start_time_iso.day + 1, sec |-> 0]
              /\ rt[q].result.legs[k].arrival_time = [day |-> rt[q].start_time_iso.day + 1, sec |-> 3600]

-----------------------------------------------------------------------------
(* C11..C16: query_closest_departures on every timetable content           *)

\* C11: closestDepartures never fails: on every timetable content, a visit
\* with an hour above 23 and a stop with a coordinate that is not a number
\* included, the call returns a list and no exception leaves it.
C11_NeverFails == cd.pc # "raised"

\* the position of stop sid in table stops
StopIndex(sid) == CHOOSE i \in 1..Len(stops) : stops[i].stop_id = sid

\* the candidate stops have been fetched
Fetched == cd.pc \notin {"idle", "start"}

\* C13: _fetch_candidate_stops returns exactly the stops with a numeric
\* coordinate whose distance to the origin is at most the radius, each once
\* and with that distance, in ascending distance, stops of equal distance in
\* the order of table stops; a stop with a non-numeric coordinate is left
\* out and nothing is raised.
C13_CandidatesExact ==
    Fetched =>
        LET cs == cd.candidate_stops
        IN  /\ {cs[i].stop_id : i \in 1..Len(cs)} =
                    {r.stop_id : r \in {x \in Range(stops) :
                                          /\ x.stop_lat[1] = "num"
                                          /\ Abs(x.stop_lat[2] - cd.start) <= cd.radius_m}}
            /\ \A i, j \in 1..Len(cs) : i # j => cs[i].stop_id # cs[j].stop_id
            /\ \A i \in 1..Len(cs) :
                  cs[i].distance_m = Abs(stops[StopIndex(cs[i].stop_id)].stop_lat[2] - cd.start)
            /\ \A i, j \in 1..Len(cs) :
                  i < j => \/ cs[i].distance_m < cs[j].distance_m
                           \/ /\ cs[i].distance_m = cs[j].distance_m
                              /\ StopIndex(cs[i].stop_id) < StopIndex(cs[j].stop_id)

\* two stops at the same distance, equal to the radius, were returned from a
\* table that has a stop with a non-numeric coordinate
C13_Witness ==
    /\ Fetched
    /\ \E r \in Range(stops) : r.stop_lat[1] # "num"
    /\ \E i, j \in 1..Len(cd.candidate_stops) :
          /\ i < j
          /\ cd.candidate_stops[i].distance_m = cd.candidate_stops[j].distance_m
          /\ cd.candidate_stops[j].distance_m = cd.radius_m

\* the direction filter is about to be called for row cd.rows[cd.j], the
\* boarding visit matched by the departure lookup
AtFilter == cd.pc = "rows" /\ cd.j <= Len(cd.rows)

\* C14: the direction filter returns true when the trip has no visit with a
\* larger stop_sequence than the boarding visit; otherwise it returns true
\* if and only if the stop visited next after the boarding visit is not
\* farther from the destination than the boarding stop (ties pass), also
\* when the trip visits the boarding stop more than once.
C14_FilterAtBoardingVisit ==
    AtFilter =>
        LET row   == cd.rows[cd.j]
            stop  == cd.candidate_stops[cd.i]
            out   == is_trip_towards_destination(stop_times, stops, row.trip_id, row.stop_id,
                                                 stop.latitude, cd.dest)
            later == {r \in Range(stop_times) : /\ r.trip_id = row.trip_id
                                                /\ r.stop_sequence > row.stop_sequence}
        IN  IF later = {} THEN out = "true"
            ELSE LET next == CHOOSE r \in later : \A o \in later : r.stop_sequence <= o.stop_sequence
                     lat  == StopRow(stops, next.stop_id).stop_lat
                 IN  lat[1] = "num" =>
                        (out = "true" <=> Abs(lat[2] - cd.dest) <= Abs(stop.latitude - cd.dest))

\* C15: the departures are ordered by boarding stop nearest-first and not by
\* time: of two entries the earlier one has the smaller or equal walking
\* distance, and entries of the same boarding stop are in ascending
\* departure time.
C15_NearestFirst ==
    \A i, j \in 1..Len(cd.results) :
        i < j =>
            /\ cd.results[i].stop.walking_distance_m <= cd.results[j].stop.walking_distance_m
            /\ cd.results[i].stop.name = cd.results[j].stop.name =>
                  cd.results[i].stop.departure_time.sec <= cd.results[j].stop.departure_time.sec

\* a departure of a farther stop follows a later departure of a nearer
\* stop, which itself follows a sooner departure of the same nearer stop
C15_Witness ==
    /\ cd.pc = "done"
    /\ \E i, j, k \in 1..Len(cd.results) :
          /\ i < j /\ j < k
          /\ cd.results[i].stop.name = cd.results[j].stop.name
          /\ cd.results[i].stop.departure_time.sec < cd.results[j].stop.departure_time.sec
          /\ cd.results[j].stop.walking_distance_m < cd.results[k].stop.walking_distance_m
          /\ cd.results[k].stop.departure_time.sec < cd.results[j].stop.departure_time.sec

\* the visits at stop sid that depart at or after the reference time-of-day
VisitsFrom(sid) ==
    {r \in Range(stop_times) :
        /\ r.stop_id = sid
        /\ gtfs_time_to_seconds(r.departure_time) >= cd.start_time_iso.sec}

\* the entries of the result boarded at stop sid
EntriesAt(sid) == {k \in 1..Len(cd.results) : cd.results[k].stop.name = sid}

\* C16: every returned departure departs at or after the reference
\* time-of-day, at most 3 returned entries share a boarding stop, and the
\* boarding visit of a returned departure has fewer than 3 visits of its
\* stop that depart at or after the reference and strictly sooner than it
\* (a visit outside the 3 soonest is never returned).
C16_ThreeSoonest ==
    /\ \A k \in 1..Len(cd.results) :
          /\ cd.results[k].stop.departure_time.day = cd.start_time_iso.day
          /\ cd.results[k].stop.departure_time.sec >= cd.start_time_iso.sec
          /\ \A v \in BoardingVisits(cd.results[k]) :
                Cardinality({m \in VisitsFrom(v.stop_id) :
                                gtfs_time_to_seconds(m.departure_time) <
                                gtfs_time_to_seconds(v.departure_time)}) < 3
    /\ \A sid \in {r.stop_id : r \in Range(stops)} : Cardinality(EntriesAt(sid)) <= 3

\* the call ended below its limit with fewer than 3 entries at a stop where
\* a visit that passes the direction filter has 3 sooner visits at or after
\* the reference: sooner visits were rejected and that one was not returned
C16_Witness ==
    /\ cd.pc = "done"
    /\ Len(cd.results) < cd.limit
    /\ \E i \in 1..Len(cd.candidate_stops) :
          LET stop == cd.candidate_stops[i]
          IN  /\ Cardinality(EntriesAt(stop.stop_id)) < 3
              /\ \E v \in VisitsFrom(stop.stop_id) :
                    /\ Cardinality({m \in VisitsFrom(stop.stop_id) :
                                        gtfs_time_to_seconds(m.departure_time) <
                                        gtfs_time_to_seconds(v.departure_time)}) >= 3
                    /\ is_trip_towards_destination(stop_times, stops, v.trip_id, v.stop_id,
                                                    stop.latitude, cd.dest) = "true"

-----------------------------------------------------------------------------
(* C19: the outcomes of the request handlers                               *)

\* the visits of the requested trip that have exactly n visits of the trip
\* with a smaller stop_sequence
NthVisits(n) ==
    LET of == {r \in Range(stop_times) : r.trip_id = http.trip_id}
    IN  {r \in of : Cardinality({o \in of : o.stop_sequence < r.stop_sequence}) = n}

\* the stops of the returned trip details follow stop_sequence
StopsAscending ==
    \A i \in 1..Len(http.body.trip_details.stops) :
        \E r \in NthVisits(i - 1) :
            /\ http.body.trip_details.stops[i].name = r.stop_id
            /\ http.body.trip_details.stops[i].departure_time = r.departure_time

\* C19 with the outcomes the statement leaves out: as C19 for the city, the
\* coordinates and the trip id; besides, for Wroclaw and parseable
\* coordinates a limit that is not an integer or a radius_m that is not a
\* number gives 400 with an error body, a query that raises gives 500, and
\* trip details of a trip that visits a stop with a non-numeric coordinate
\* give 500; every other request gives 200 with the list the query returned
\* or with trip details whose stops are in ascending stop_sequence.
C19_OutcomeMappingValidated ==
    http.pc = "responded" =>
        IF http.city \notin {"Wroclaw", "wroclaw"}
        THEN /\ http.status = 404 /\ http.body.kind = "error"
             /\ http.start = <<"unset">> /\ http.end = <<"unset">>
             /\ cd.pc = "idle"
        ELSE IF http.endpoint = "closest_departures"
        THEN IF \/ http.start_coordinates[1] # "num"
                \/ http.end_coordinates[1] # "num"
                \/ http.limit[1] \notin {"num", "missing"}
                \/ http.radius_m[1] \notin {"num", "missing"}
             THEN http.status = 400 /\ http.body.kind = "error" /\ cd.pc = "idle"
             ELSE IF cd.pc = "raised" THEN http.status = 500
             ELSE /\ http.status = 200
                  /\ http.body.kind = "departures"
                  /\ http.body.departures = cd.results
                  /\ cd.pc = "done"
        ELSE IF \A r \in Range(trips) : r.trip_id # http.trip_id
             THEN http.status = 404 /\ http.body.kind = "error"
             ELSE IF \E v \in Range(stop_times), r \in Range(stops) :
                        /\ v.trip_id = http.trip_id
                        /\ r.stop_id = v.stop_id
                        /\ r.stop_lat[1] # "num"
             THEN http.status = 500
             ELSE /\ http.status = 200
                  /\ http.body.kind = "trip_details"
                  /\ Len(http.body.trip_details.stops) =
                        Cardinality({v \in Range(stop_times) : v.trip_id = http.trip_id})
                  /\ StopsAscending

\* a request for Wroclaw with parseable coordinates and a limit that is not
\* an integer was answered 400
C19_Witness ==
    /\ http.pc = "responded"
    /\ http.endpoint = "closest_departures"
    /\ http.city = "Wroclaw"
    /\ http.start_coordinates[1] = "num" /\ http.end_coordinates[1] = "num"
    /\ http.limit = <<"text">>
    /\ http.status = 400

\* C19: a city other than Wroclaw gives 404 with an error body and no
\* parameter is parsed; for Wroclaw, start_coordinates or end_coordinates
\* missing or unparseable give 400 with an error body and a trip id that is
\* not in table trips gives 404 with an error body; every other request
\* gives 200 with a list of departures or with trip details whose stops are
\* in ascending stop_sequence.
C19_OutcomeMapping ==
    http.pc = "responded" =>
        IF http.city \notin {"Wroclaw", "wroclaw"}
        THEN /\ http.status = 404 /\ http.body.kind = "error"
             /\ http.start = <<"unset">> /\ http.end = <<"unset">>
             /\ cd.pc = "idle"
        ELSE IF /\ http.endpoint = "closest_departures"
                /\ \/ http.start_coordinates[1] # "num"
                   \/ http.end_coordinates[1] # "num"
        THEN http.status = 400 /\ http.body.kind = "error"
        ELSE IF /\ http.endpoint = "trip"
                /\ \A r \in Range(trips) : r.trip_id # http.trip_id
        THEN http.status = 404 /\ http.body.kind = "error"
        ELSE /\ http.status = 200
             /\ http.endpoint = "closest_departures" =>
                   /\ http.body.kind = "departures"
                   /\ http.body.departures = cd.results
             /\ http.endpoint = "trip" =>
                   /\ http.body.kind = "trip_details"
                   /\ StopsAscending

-----------------------------------------------------------------------------
(* C20: invocations in flight at once                                      *)

\* the call that invocation q serves
RequestOf(q) ==
    Request(rt[q].start, rt[q].dest, rt[q].start_time_iso, rt[q].max_walk_m,
            rt[q].walk_speed_m_s)

\* C20: with the steps of two compute_best_route invocations and of a
\* query_closest_departures invocation interleaved in any order over tables
\* that nothing writes, every invocation ends with the result, and with the
\* labels, predecessor map, queue and adjacency, that it ends with when it
\* runs alone.
C20_AsAlone ==
    /\ \A q \in Queries :
          Done(q) => rt[q] = RunAlone(RequestOf(q), stops, trips, stop_times)
    /\ cd.pc \in {"done", "raised"} =>
          cd \in CdRunAlone(CdRequest(cd.start, cd.dest, cd.start_time_iso, cd.limit,
                                      cd.radius_m),
                            stops, trips, stop_times)

\* the three invocations have returned: two different itineraries and a
\* list of departures that is not empty
C20_Witness ==
    /\ Found(1) /\ Found(2)
    /\ rt[1].result # rt[2].result
    /\ rt[1].best_time # rt[2].best_time
    /\ cd.pc = "done"
    /\ cd.results # <<>>

-----------------------------------------------------------------------------
(* C21: catchable edges and the order of times along an itinerary          *)

\* instant a is not later than instant b
NotAfter(a, b) == a.day < b.day \/ (a.day = b.day /\ a.sec <= b.sec)

\* the instant at which a leg begins
LegStart(leg) == IF leg.type = "ride" THEN leg.boarding_time ELSE leg.start_time

\* the stops that the step of q gave a new predecessor record
NewlyLinked(q) ==
    {sid \in DOMAIN rt'[q].prev : sid \notin DOMAIN rt[q].prev \/ rt'[q].prev[sid] # rt[q].prev[sid]}

\* the step pops a current label of q and scans the edges of its stop
Scans(q) ==
    /\ rt[q].pc = "search" /\ rt[q].pq # {}
    /\ rt'[q].pc = "search"
    /\ ~Stale(HeapTop(rt[q].pq)[1], rt[q].best_time[HeapTop(rt[q].pq)[2]],
              Eps(rt[q].walk_speed_m_s))

\* every record written by the scan is a ride from the popped stop that
\* departs no earlier than slack ticks before the popped label, and no edge
\* departing at or after the popped label leaves a later label at its end
RelaxesCatchable(q, slack) ==
    LET e == HeapTop(rt[q].pq)
    IN  /\ \A sid \in NewlyLinked(q) :
              /\ rt'[q].prev[sid].mode = "ride"
              /\ rt'[q].prev[sid].prev_stop_id = e[2]
              /\ rt'[q].prev[sid].dep_time_sec >= e[1] - slack
        /\ \A i \in 1..Len(rt[q].edges_by_stop[e[2]]) :
              LET edge == rt[q].edges_by_stop[e[2]][i]
              IN  edge.dep_sec >= e[1] => rt'[q].best_time[edge.to_stop_id] <= edge.arr_sec

\* along the legs: a ride is boarded no earlier than the leg before it ends,
\* it arrives no earlier than it is boarded, and the final walk starts at the
\* arrival of the leg before it
TimesInOrder(legs) ==
    /\ \A i \in 1..Len(legs) : NotAfter(LegStart(legs[i]), legs[i].arrival_time)
    /\ \A i \in 2..Len(legs) :
          legs[i].type = "ride" => NotAfter(legs[i-1].arrival_time, legs[i].boarding_time)
    /\ Len(legs) >= 2 => legs[Len(legs)].start_time = legs[Len(legs) - 1].arrival_time

ReturnsInOrder(q) ==
    (rt[q].pc = "legs" /\ rt'[q].pc = "done" /\ rt'[q].result.status = "route")
        => TimesInOrder(rt'[q].result.legs)

\* C21 as stated: a scan relaxes an edge only when the edge departs no
\* earlier than the label with which its stop was popped, an edge departing
\* exactly at that label is caught, and the times of every returned itinerary
\* are in order along its legs.
C21_AsStated ==
    [][\A q \in Queries : /\ Scans(q) => RelaxesCatchable(q, 0)
                          /\ ReturnsInOrder(q)]_vars

\* C21 amended: a scan relaxes an edge only when the edge departs no earlier
\* than 1e-6 s before the label with which its stop was popped, an edge
\* departing at or after that label is caught, and the times of every
\* returned itinerary, which are whole seconds, are in order along its legs.
C21_CatchableWithinTolerance ==
    [][\A q \in Queries : /\ Scans(q) => RelaxesCatchable(q, Eps(rt[q].walk_speed_m_s))
                          /\ ReturnsInOrder(q)]_vars

\* an itinerary was returned whose first ride departs at the very tick of
\* the walk-in arrival and whose second ride departs from a stop reached by
\* the first
C21_Witness ==
    \E q \in Queries :
        /\ Found(q)
        /\ Len(rt[q].segments) >= 3
        /\ rt[q].segments[1].mode = "walk_start"
        /\ rt[q].segments[2].dep_time_sec = rt[q].segments[1].arr_time_sec
        /\ Len(RideLegsOf(q)) >= 2

-----------------------------------------------------------------------------
(* C22: termination                                                        *)

\* the main loop of q is left, by the empty queue or by the pruning rule
SearchEnds == \A q \in Queries : (rt[q].pc = "search") ~> (rt[q].pc # "search")

\* C22: every call of compute_best_route that entered its search returns: the main
\* loop ends by emptying the queue or by the pruning rule, and the
\* predecessor walk of the reconstruction ends.
C22_Terminates == \A q \in Queries : (rt[q].pc = "search") ~> Done(q)

-----------------------------------------------------------------------------
(* C23: the predecessor links lead to the walk from the origin             *)

\* following the links of links from sid for at most fuel records ends at a
\* record "walk from origin"
RECURSIVE Rooted(_, _, _)
Rooted(links, sid, fuel) ==
    /\ fuel > 0
    /\ sid \in DOMAIN links
    /\ \/ links[sid].mode = "walk_start" /\ links[sid].prev_stop_id = NoneId
       \/ /\ links[sid].mode = "ride"
          /\ Rooted(links, links[sid].prev_stop_id, fuel - 1)

\* the search of q has labels
Searching(q) == rt[q].pc \in {"search", "searched", "walkback", "legs"}

\* C23: while the search runs and after it, every stop with a finite label
\* has a predecessor record from which the links lead, over no more records
\* than there are stops, to a record "walk from origin"; and a call that ends
\* with a best destination stop returns an itinerary whose chain is not empty
\* and begins with the walk-in.
C23_PredecessorRoot ==
    \A q \in Queries :
        /\ Searching(q) =>
              \A sid \in DOMAIN rt[q].best_time :
                  rt[q].best_time[sid] < INF =>
                      Rooted(rt[q].prev, sid, Cardinality(DOMAIN rt[q].stops))
        /\ (Done(q) /\ rt[q].best_dest_stop_id # NoneId) =>
              /\ rt[q].result.status = "route"
              /\ rt[q].segments # <<>>
              /\ rt[q].segments[1].mode = "walk_start"

-----------------------------------------------------------------------------
(* C24: lazy deletion                                                      *)

\* the step of q pops an entry whose key is greater than the label of its stop
PopsOutdated(q) ==
    /\ rt[q].pc = "search" /\ rt[q].pq # {}
    /\ rt'[q] # rt[q]
    /\ HeapTop(rt[q].pq)[1] > rt[q].best_time[HeapTop(rt[q].pq)[2]]

\* the keys of the entries are in non-decreasing order
InKeyOrder(entries) == \A i \in 1..(Len(entries) - 1) : entries[i][1] <= entries[i+1][1]

\* no stop occurs twice
NoRepeat(ids) == \A i, j \in 1..Len(ids) : i # j => ids[i] # ids[j]

\* no label of q is greater after the step than before it
LabelsNotRaised(q) ==
    \A sid \in DOMAIN rt[q].best_time \cap DOMAIN rt'[q].best_time :
        rt'[q].best_time[sid] <= rt[q].best_time[sid]

\* C24: a popped entry whose key is greater than the stored label of its
\* stop is discarded: the step removes it from the queue and changes nothing
\* else (labels, predecessor records, best destination arrival and stop; no
\* destination test, no scan of edges); the entries that are not discarded
\* are popped in non-decreasing key order, no label ever increases, and the
\* edges of a stop are scanned at most once per search.
C24_LazyDeletion ==
    [][\A q \in Queries : /\ PopsOutdated(q) => rt'[q] = Popped(rt[q])
                          /\ InKeyOrder(rt'[q].settled)
                          /\ LabelsNotRaised(q)
                          /\ NoRepeat(rt'[q].scans)]_vars

-----------------------------------------------------------------------------
(* C25: the itinerary is a connected chain                                 *)

\* C25: every returned itinerary begins with a walk from the origin to a
\* stop within max_walk_m, ends with a walk from the best destination stop,
\* itself within max_walk_m of the destination, to the destination; every
\* leg between them is a ride, every leg after the first starts at the stop
\* where the leg before it ended, and the arrival_time of the itinerary is
\* the arrival_time of its last leg.
C25_ConnectedChain ==
    \A q \in Queries :
        Found(q) =>
            LET legs == rt[q].result.legs
                n    == Len(legs)
            IN  /\ n >= 2
                /\ legs[1].type = "walk"
                /\ legs[1].from = [coordinates |-> rt[q].start]
                /\ legs[1].to.stop_id \in DOMAIN Lats
                /\ legs[1].distance_m = Abs(Lats[legs[1].to.stop_id] - rt[q].start)
                /\ legs[1].distance_m <= rt[q].max_walk_m
                /\ legs[n].type = "walk"
                /\ legs[n].from.stop_id = rt[q].best_dest_stop_id
                /\ legs[n].to = [coordinates |-> rt[q].dest]
                /\ legs[n].distance_m = Abs(Lats[legs[n].from.stop_id] - rt[q].dest)
                /\ legs[n].distance_m <= rt[q].max_walk_m
                /\ \A i \in 2..(n - 1) : legs[i].type = "ride"
                /\ \A i \in 2..n : legs[i].from.stop_id = legs[i-1].to.stop_id
                /\ rt[q].result.arrival_time = legs[n].arrival_time

\* an itinerary with a transfer between two walks of positive length
C25_Witness ==
    \E q \in Queries :
        /\ Found(q)
        /\ Len(rt[q].result.legs) >= 4
        /\ rt[q].result.legs[1].distance_m > 0
        /\ rt[q].result.legs[Len(rt[q].result.legs)].distance_m > 0

=============================================================================
